---- MODULE Spec2Model ----
(***************************************************************************)
(* CompanionOS backend: the chat turn (generate / judge / retry loop,      *)
(* persistence, post-chat pipeline, tools) and the memory_items upsert.    *)
(***************************************************************************)
EXTENDS Integers, Sequences, FiniteSets, TLC

(* ------------------------------------------------------------------ *)
(* Bounds of the model                                                 *)
(* ------------------------------------------------------------------ *)
MaxTurns == 2
MaxTracedTurns == 1
MaxUpserts == 3
MaxPipeTurns == 2
MaxTools == 3
MaxCalls == 3
MaxAlertCalls == 4
MaxCreate == 3
MaxPluginCalls == 2
MaxLongTurns == 1
MaxModelItems == 7
MaxSegments == 3
MaxRegister == 3
MaxLoops == 12
MaxRaceRuns == 2

(* ------------------------------------------------------------------ *)
(* Values                                                              *)
(* ------------------------------------------------------------------ *)
\* Python None, and a key that a dict does not hold (dict.get gives None).
None == "<None>"

\* Python truthiness of an optional string: None and "" are falsy.
Truthy(x) == x # None /\ x # ""

\* The session the turns run in, and a second session.
S1 == "s1"
S2 == "s2"

UserMessage == "u"
Refusal == "I cannot answer that."

\* Texts the generation model can answer with (ollama_chat), the empty one included.
Drafts == {"", "d1"}

\* A loop bound one too large.
max_retries_four == 3 + 1

max_retries == 3

\* The judge_result of chat_send_api before the first run_judge: {}.
EmptyJudgeResult ==
  [verdict |-> None, feedback |-> None, rewritten_response |-> None,
   reason |-> None, risk_tags |-> <<>>]

\* A persona of PERSONAS, by its memory policy (personas.py loads any object
\* that holds the required fields).
Persona(enabled) == [memory_policy |-> [enabled |-> enabled, scope |-> "session"]]

Personas == {Persona(e) : e \in BOOLEAN}

(* ------------------------------------------------------------------ *)
(* State                                                               *)
(* ------------------------------------------------------------------ *)
VARIABLES
  judge_enabled,     \* JUDGE_ENABLED of the process environment
  persona,           \* the persona of session S1, an entry of PERSONAS
  messages,          \* table messages of session S1, in created_at order
  memory_items,      \* table memory_items: a set of rows
  session_summaries, \* table session_summaries: a set of rows
  alerts,            \* table alerts: a set of rows
  tool_settings,     \* table tool_settings: a set of rows
  next_id,           \* the next fresh uuid4
  pc,                \* position of the turn in chat_send_api
  turns,             \* turns started so far
  attempt,           \* loop variable of the retry loop
  current_history,   \* generation context of the turn
  assistant_draft,
  final_text,
  final_src,         \* where final_text was taken from
  verdict,
  judge_result,
  gen_calls,         \* ollama_chat calls of the turn
  judge_calls,       \* run_judge calls of the turn
  judge_backend_calls, \* _ollama_chat calls made by run_judge in the turn
  judged,            \* attempts whose draft was handed to run_judge
  verdicts,          \* the verdicts run_judge returned in the turn
  last_resp,         \* what the last run_judge call met (kept where it is traced)
  pipeline_runs,     \* run_post_chat_pipeline calls of the turn
  tool_runs,         \* tool.run invocations of the turn
  pipeline_debug,    \* the record run_post_chat_pipeline returned in the turn
  tool_events,       \* the events run_tools returned in the turn
  result,            \* what chat_send_api gave its caller
  turn_pre,          \* the persisted state when the turn was entered
  pipe_in,           \* what the last run_post_chat_pipeline call met (kept where it is traced)
  fn_in,             \* arguments of the function that is called on its own
  fn_out,            \* what that call returned
  alert_terminal,    \* per alert id, the first terminal status it was given
  calls,             \* calls made so far where functions are called on their own
  w_pc,              \* position of each concurrent upsert_memory_item call
  w_args,            \* its arguments
  w_existing,        \* the row id its SELECT returned
  last_upsert,       \* the last sequential upsert_memory_item call
  upserts            \* sequential upsert/delete calls made so far

turnVars ==
  <<pc, turns, attempt, current_history, assistant_draft, final_text, final_src,
    verdict, judge_result, gen_calls, judge_calls, judge_backend_calls, judged,
    verdicts, last_resp, pipeline_runs, tool_runs, pipeline_debug, tool_events, result,
    turn_pre>>

dbVars == <<messages, memory_items, session_summaries, alerts, tool_settings, next_id>>

writerVars == <<w_pc, w_args, w_existing>>

seqVars == <<last_upsert, upserts>>

callVars == <<fn_in, fn_out, alert_terminal, calls>>

vars == <<judge_enabled, persona, dbVars, turnVars, writerVars, seqVars, callVars, pipe_in>>

(* ------------------------------------------------------------------ *)
(* Judge gate: agents/Judge/judge_agent.py                             *)
(* ------------------------------------------------------------------ *)
\* A key the judge's JSON object does not hold.
Absent == "<absent>"

\* dict.get(key, default) on a parsed object.
DictGet(v, default) == IF v = Absent THEN default ELSE v

\* What can happen in one run_judge call once the gate is enabled:
\*   prompt_error     building the prompt raises (settings, prompt files, template)
\*   transport_error  requests.post / raise_for_status raises
\*   timeout          requests.post times out
\*   no_json          the response holds no "{" ... "}" span
\*   malformed_json   json.loads of the span raises
\*   not_object       the response is JSON but no object (a number, a string, a
\*                    list of scalars): it holds no brace, as no_json
\*   object           json.loads gives a dict
JudgeFailureKinds ==
  {"prompt_error", "transport_error", "timeout", "no_json", "malformed_json", "not_object"}

JudgeVerdictValues == {Absent, "PASS", "REWRITE", "BLOCK", "MAYBE"}
JudgeFeedbackValues == {Absent, "", "fb"}
JudgeRewriteValues == {Absent, "", "r1"}

JudgeResponses ==
  [kind : JudgeFailureKinds, verdict : {Absent}, feedback : {Absent}, rewritten : {Absent}]
  \cup
  [kind : {"object"}, verdict : JudgeVerdictValues, feedback : JudgeFeedbackValues,
   rewritten : JudgeRewriteValues]

\* Lines 80-95 run before the try block: what they raise leaves run_judge.
RaisesOutsideTry(resp) == resp.kind = "prompt_error"

\* Lines 97-115: what raises inside the try block and is caught at line 145.
RaisesInsideTry(resp) ==
  resp.kind \in {"transport_error", "timeout", "no_json", "malformed_json", "not_object"}

\* The except branch, line 147.
JudgeFallback ==
  [verdict |-> "PASS", feedback |-> None, rewritten_response |-> None,
   reason |-> "judge_failed", risk_tags |-> <<"judge_error">>]

\* Line 78.
JudgeDisabledResult ==
  [verdict |-> "PASS", feedback |-> None, rewritten_response |-> None,
   reason |-> "judge_disabled", risk_tags |-> <<>>]

\* Lines 117-119.
NormalizeVerdict(v) ==
  LET got == DictGet(v, "PASS")
  IN  IF got \in {"PASS", "REWRITE", "BLOCK"} THEN got ELSE "PASS"

\* No downgrade at all.
DowngradeRewriteNever(v, rewritten, feedback) == v

\* Lines 127-130: REWRITE with nothing actionable is PASS.
DowngradeRewrite(v, rewritten, feedback) ==
  IF v = "REWRITE" /\ ~Truthy(rewritten) /\ ~Truthy(feedback) THEN "PASS" ELSE v

\* Lines 117-143 on a parsed object.
JudgeFromObject(resp) ==
  LET v0 == NormalizeVerdict(resp.verdict)
      rewritten0 == DictGet(resp.rewritten, None)
      feedback0 == DictGet(resp.feedback, "")
      rewritten == IF v0 = "PASS" THEN None ELSE rewritten0
      feedback == IF v0 = "PASS" THEN None ELSE feedback0
  IN  [verdict |-> DowngradeRewrite(v0, rewritten, feedback),
       feedback |-> feedback,
       rewritten_response |-> rewritten,
       reason |-> "why",
       risk_tags |-> <<"tag">>]

\* A gate that ignores the setting.
JudgeGateAlwaysOn(enabled) == TRUE

\* Lines 76-78: the gate is consulted before anything else.
JudgeGateOn(enabled) == enabled

\* run_judge: whether it raises, whether it called the model backend, its result.
RunJudge(enabled, resp) ==
  IF ~JudgeGateOn(enabled)
  THEN [raised |-> FALSE, called |-> FALSE, res |-> JudgeDisabledResult]
  ELSE IF RaisesOutsideTry(resp)
  THEN [raised |-> TRUE, called |-> FALSE, res |-> EmptyJudgeResult]
  ELSE IF RaisesInsideTry(resp)
  THEN [raised |-> FALSE, called |-> TRUE, res |-> JudgeFallback]
  ELSE [raised |-> FALSE, called |-> TRUE, res |-> JudgeFromObject(resp)]

(* ------------------------------------------------------------------ *)
(* Persistence: db.py                                                  *)
(* ------------------------------------------------------------------ *)
Min(a, b) == IF a < b THEN a ELSE b
Max(a, b) == IF a > b THEN a ELSE b

\* An INSERT that is never committed.
AddMessageLost(msgs, role, content) == msgs

\* add_message: one INSERT into messages.
AddMessage(msgs, role, content) == Append(msgs, [role |-> role, content |-> content])

\* get_messages: ORDER BY created_at ASC LIMIT limit.
GetMessages(msgs, limit) == SubSeq(msgs, 1, Min(limit, Len(msgs)))

\* count_messages: SELECT COUNT(*).
CountMessages(msgs) == Len(msgs)

\* Python seq[-n:].
LastN(seq, n) == SubSeq(seq, Max(1, Len(seq) - n + 1), Len(seq))

\* Python seq[:-1].
AllButLast(seq) == SubSeq(seq, 1, Len(seq) - 1)

\* fetchone() on an empty result; row ids (uuid4) are the numbers from 1.
NoRow == 0

\* "=" where IS is meant: NULL matches nothing.
SqlIsAsEq(col, arg) == col # None /\ arg # None /\ col = arg

\* SQL "col IS ?": true for two NULLs, and for equal values.
SqlIs(col, arg) == col = arg

\* SQL "col = ?": NULL (not true) as soon as one side is NULL.
SqlEq(col, arg) == col # None /\ arg # None /\ col = arg

\* The WHERE clause of upsert_memory_item's SELECT.
MemoryMatch(row, scope, key, session_id) ==
  /\ row.scope = scope
  /\ row.key = key
  /\ (SqlIs(row.session_id, session_id) \/ SqlEq(row.session_id, session_id))

ExistingMemory(rows, scope, key, session_id) ==
  {r \in rows : MemoryMatch(r, scope, key, session_id)}

\* The UPDATE of upsert_memory_item: WHERE id = ?.
UpdateMemoryRow(rows, id, value, confidence) ==
  {IF r.id = id THEN [r EXCEPT !.value = value, !.confidence = confidence] ELSE r : r \in rows}

\* The INSERT of upsert_memory_item.
InsertMemoryRow(rows, id, scope, session_id, key, value, confidence) ==
  rows \cup {[id |-> id, scope |-> scope, session_id |-> session_id, key |-> key,
              value |-> value, confidence |-> confidence]}

\* upsert_memory_item run from SELECT to commit with nothing in between; `e` is the
\* row fetchone() gave (any of the matching rows), `id` a fresh uuid4.
UpsertMemoryWith(rows, e, id, scope, key, value, confidence, session_id) ==
  IF e = NoRow
  THEN InsertMemoryRow(rows, id, scope, session_id, key, value, confidence)
  ELSE UpdateMemoryRow(rows, e, value, confidence)

\* What fetchone() can give: a matching row's id, or no row when none matches.
FetchOneIds(rows, scope, key, session_id) ==
  LET m == ExistingMemory(rows, scope, key, session_id)
  IN  IF m = {} THEN {NoRow} ELSE {r.id : r \in m}

\* delete_memory_item.
DeleteMemoryRow(rows, id) == {r \in rows : r.id # id}

\* upsert_session_summary: SELECT by session_id, then UPDATE or INSERT.
UpsertSessionSummary(rows, session_id, summary, open_loops) ==
  {r \in rows : r.session_id # session_id}
  \cup {[session_id |-> session_id, summary |-> summary, open_loops |-> open_loops]}

\* create_alert: one INSERT, status 'active'.
CreateAlert(rows, id, scope, session_id, title, body, due_at) ==
  rows \cup {[id |-> id, scope |-> scope, session_id |-> session_id, title |-> title,
              body |-> body, due_at |-> due_at, status |-> "active"]}

\* A resolution in which the global rows win over the session's.
EffectiveToolEnabledGlobalFirst(settings, session_id, tool_id) ==
  LET g == {r \in settings : r.scope = "global" /\ r.tool_id = tool_id}
      o == {r \in settings : r.scope = "session" /\ r.session_id = session_id
                                /\ r.tool_id = tool_id}
  IN  IF g # {} THEN {r.enabled : r \in g}
      ELSE IF o # {} THEN {r.enabled : r \in o}
      ELSE {TRUE}

\* get_effective_tool_enabled_map for one tool id: the values the map can hold
\* for it. The global rows are applied first and the session's rows after them,
\* each in the order the SELECT (no ORDER BY) returns them: the last row wins.
EffectiveToolEnabledValues(settings, session_id, tool_id) ==
  LET g == {r \in settings : r.scope = "global" /\ r.tool_id = tool_id}
      o == {r \in settings : r.scope = "session" /\ r.session_id = session_id
                                /\ r.tool_id = tool_id}
  IN  IF o # {} THEN {r.enabled : r \in o}
      ELSE IF g # {} THEN {r.enabled : r \in g}
      ELSE {TRUE}

EffectiveToolEnabled(settings, session_id, tool_id) ==
  CHOOSE v \in EffectiveToolEnabledValues(settings, session_id, tool_id) : TRUE

\* upsert_tool_setting, lines 468-474: the ids the SELECT can return, NoRow
\* when no row matches (session_id IS ? OR session_id = ?).
FetchOneSettingIds(rows, scope, tool_id, session_id) ==
  LET found == {r \in rows : r.scope = scope /\ r.tool_id = tool_id
                               /\ (SqlIs(r.session_id, session_id)
                                   \/ SqlEq(r.session_id, session_id))}
  IN  IF found = {} THEN {NoRow} ELSE {r.id : r \in found}

\* upsert_tool_setting, lines 476-493: UPDATE the row found or INSERT one.
UpsertToolSettingWith(rows, e, id, scope, tool_id, enabled, session_id) ==
  IF e # NoRow
  THEN {IF r.id = e THEN [r EXCEPT !.enabled = enabled] ELSE r : r \in rows}
  ELSE rows \cup {[id |-> id, scope |-> scope, session_id |-> session_id,
                   tool_id |-> tool_id, enabled |-> enabled]}

\* update_alert_status, lines 413-429: any of the three statuses is written
\* on the row of that id, whatever its status is.
UpdateAlertStatus(rows, alert_id, status) ==
  {IF r.id = alert_id THEN [r EXCEPT !.status = status] ELSE r : r \in rows}

(* ------------------------------------------------------------------ *)
(* Memory extraction: memory_extractor.py                              *)
(* Keys, values and summaries are sequences of characters.             *)
(* ------------------------------------------------------------------ *)
MX1_CONFIDENCE_THRESHOLD == 80   \* in hundredths
MX1_RECENT_MESSAGES == 10
SUMMARY_CADENCE == 6
ALLOW_GLOBAL_WRITE == TRUE
MESSAGES_LIMIT == 50

\* One more item per run.
Mx1MaxItemsSix == 5 + 1

\* items_in[:5]
MX1_MAX_ITEMS == 5
\* One more open loop per summary.
MaxOpenLoopsEleven == 10 + 1

MAX_OPEN_LOOPS == 10
KEY_MAX_LEN == 64
VALUE_MAX_LEN == 400

Whitespace == {" "}

\* [a-z0-9_]
KeyChars ==
  {"a", "b", "c", "d", "e", "f", "g", "h", "i", "j", "k", "l", "m", "n", "o", "p", "q",
   "r", "s", "t", "u", "v", "w", "x", "y", "z", "0", "1", "2", "3", "4", "5", "6", "7",
   "8", "9", "_"}

RECURSIVE LStrip(_)
LStrip(t) == IF t # <<>> /\ Head(t) \in Whitespace THEN LStrip(Tail(t)) ELSE t

\* A strip that leaves the text as it is.
StripNothing(t) == t

RECURSIVE RStrip(_)
RStrip(t) ==
  IF t # <<>> /\ t[Len(t)] \in Whitespace THEN RStrip(SubSeq(t, 1, Len(t) - 1)) ELSE t

\* str.strip()
Strip(t) == RStrip(LStrip(t))

\* _clamp01, in hundredths
Clamp01(x) == Max(0, Min(100, x))

\* A field of the object recovered from the model's text: a string, a number,
\* the float NaN (json.loads reads the literal NaN), a value of another type
\* (null, a list, an object), or no such key.
Str(t) == [tag |-> "str", val |-> t, num |-> 0]
Num(n) == [tag |-> "num", val |-> <<>>, num |-> n]
NaN == [tag |-> "nan", val |-> <<>>, num |-> 0]
Other == [tag |-> "other", val |-> <<>>, num |-> 0]
Missing == [tag |-> "missing", val |-> <<>>, num |-> 0]

\* Lines 186 and 197-200: conf = it.get("confidence", 0.0), then
\* _clamp01(float(conf)), or 0.0 when float() raises. With NaN every
\* comparison is false: min(1.0, nan) is 1.0 and max(0.0, 1.0) is 1.0.
ConfF(conf) ==
  CASE conf.tag = "num" -> Clamp01(conf.num)
    [] conf.tag = "missing" -> Clamp01(0)
    [] conf.tag = "nan" -> 100
    [] OTHER -> 0

\* Lines 214-217: summary = sp.get("summary", ""), "" when it is no string.
SummaryText(x) == IF x.tag = "str" THEN x.val ELSE <<>>

\* The same checks with a threshold that drops the candidate at the threshold.
Mx1ItemAcceptedAbove(it, threshold, allow_scopes) ==
  /\ it.scope \in allow_scopes
  /\ 1 <= Len(it.key) /\ Len(it.key) <= KEY_MAX_LEN
  /\ \A i \in 1..Len(it.key) : it.key[i] \in KeyChars
  /\ 1 <= Len(it.value) /\ Len(it.value) <= VALUE_MAX_LEN
  /\ ConfF(it.confidence) > threshold

\* Lines 188-203: the checks one candidate has to pass.
Mx1ItemAccepted(it, threshold, allow_scopes) ==
  /\ it.scope \in allow_scopes
  /\ 1 <= Len(it.key) /\ Len(it.key) <= KEY_MAX_LEN
  /\ \A i \in 1..Len(it.key) : it.key[i] \in KeyChars
  /\ 1 <= Len(it.value) /\ Len(it.value) <= VALUE_MAX_LEN
  /\ ~(ConfF(it.confidence) < threshold)

\* Lines 205-207.
Mx1Accept(it) ==
  [scope |-> it.scope, key |-> it.key, value |-> Strip(it.value),
   confidence |-> ConfF(it.confidence)]

RECURSIVE Mx1Filter(_, _, _)
Mx1Filter(items, threshold, allow_scopes) ==
  IF items = <<>> THEN <<>>
  ELSE LET rest == Mx1Filter(Tail(items), threshold, allow_scopes)
       IN  IF Mx1ItemAccepted(Head(items), threshold, allow_scopes)
           THEN <<Mx1Accept(Head(items))>> \o rest
           ELSE rest

RECURSIVE NormOpenLoops(_)
NormOpenLoops(xs) ==
  IF xs = <<>> THEN <<>>
  ELSE IF Strip(Head(xs)) # <<>> THEN <<Strip(Head(xs))>> \o NormOpenLoops(Tail(xs))
  ELSE NormOpenLoops(Tail(xs))

\* validate_mx1_output: (accepted items, summary patch).
ValidateMx1Output(data, threshold, allow_scopes) ==
  [items |-> Mx1Filter(SubSeq(data.items, 1, Min(MX1_MAX_ITEMS, Len(data.items))),
                       threshold, allow_scopes),
   summary |-> Strip(SummaryText(data.summary)),
   open_loops |-> NormOpenLoops(SubSeq(data.open_loops, 1,
                                       Min(MAX_OPEN_LOOPS, Len(data.open_loops))))]

\* Line 253: `data or {}`, the object with no key.
EmptyData == [items |-> <<>>, summary |-> Missing, open_loops |-> <<>>]

\* extract_mx1, lines 253-259, on the object recovered from the model's text
\* (an empty object when nothing was recovered).
ExtractMx1(data) ==
  ValidateMx1Output(data, MX1_CONFIDENCE_THRESHOLD,
                    IF ALLOW_GLOBAL_WRITE THEN {"global", "session"} ELSE {"session"})

(* ------------------------------------------------------------------ *)
(* Post-chat pipeline: pipeline.py                                     *)
(* ------------------------------------------------------------------ *)
\* _fallback_summary_from_recent: the count and up to 3 snippets of the last 4
\* messages whose content is not blank.
RECURSIVE Snippets(_)
Snippets(tail) ==
  IF tail = <<>> THEN <<>>
  ELSE IF Head(tail).content # ""
       THEN <<[role |-> Head(tail).role, content |-> Head(tail).content]>>
            \o Snippets(Tail(tail))
       ELSE Snippets(Tail(tail))

FallbackSummaryFromRecent(recent, msg_count) ==
  IF recent = <<>>
  THEN [kind |-> "fallback", text |-> <<>>, count |-> msg_count, snippets |-> <<>>]
  ELSE LET sn == Snippets(LastN(recent, 4))
       IN  [kind |-> "fallback", text |-> <<>>, count |-> msg_count,
            snippets |-> SubSeq(sn, 1, Min(3, Len(sn)))]

\* An emergency summary with no text.
EmergencySummaryBlank(msg_count) ==
  [kind |-> "model", text |-> <<>>, count |-> 0, snippets |-> <<>>]

EmergencySummary(msg_count) ==
  [kind |-> "emergency", text |-> <<>>, count |-> msg_count, snippets |-> <<>>]

ModelSummary(text) ==
  [kind |-> "model", text |-> text, count |-> 0, snippets |-> <<>>]

\* Lines 93-103: the accepted items are upserted one after the other.
RECURSIVE UpsertItems(_, _, _, _)
UpsertItems(rows, nid, items, session_id) ==
  IF items = <<>> THEN [rows |-> rows, nid |-> nid]
  ELSE LET it == Head(items)
           sid == IF it.scope = "session" THEN session_id ELSE None
           e == CHOOSE x \in FetchOneIds(rows, it.scope, it.key, sid) : TRUE
           rows2 == UpsertMemoryWith(rows, e, nid, it.scope, it.key, it.value,
                                     it.confidence, sid)
       IN  UpsertItems(rows2, IF e = NoRow THEN nid + 1 ELSE nid, Tail(items), session_id)

\* A summary on every run.
OnCadenceAlways(msg_count) == TRUE

\* Line 72 and line 147.
OnCadence(msg_count) == msg_count % SUMMARY_CADENCE = 0

\* Lines 55-63: the diagnostic record at entry (0 and FALSE stand for None:
\* a run never counts 0 messages).
NoDebug ==
  [msg_count |-> 0, should_update_summary |-> FALSE, memory_items_upserted |-> 0,
   summary_updated |-> FALSE, errors |-> <<>>]

\* What a run hands back: the tables as it leaves them, the record it returns,
\* and the number of upsert_session_summary calls it completed.
PipelineResult(mem, nid, sums, debug, writes) ==
  [memory_items |-> mem, next_id |-> nid, session_summaries |-> sums, debug |-> debug,
   summary_writes |-> writes]

\* An except branch that records nothing and writes nothing.
PipelineExceptSilent(msgs, mem, nid, sums, session_id, out, debug) ==
  PipelineResult(mem, nid, sums, debug, 0)

\* Lines 140-161: the except branch. The count is read again; on cadence the
\* emergency summary is written; a failure in here is collected too.
PipelineExcept(msgs, mem, nid, sums, session_id, out, debug) ==
  LET msg_count == CountMessages(msgs)
      errs == Append(debug.errors, "pipeline_error")
  IN  IF out.emergency = "count_raises"
      THEN PipelineResult(mem, nid, sums,
                          [debug EXCEPT !.errors = Append(errs, "emergency_summary_failed")],
                          0)
      ELSE IF ~OnCadence(msg_count)
      THEN PipelineResult(mem, nid, sums, [debug EXCEPT !.errors = errs], 0)
      ELSE IF out.emergency = "write_raises"
      THEN PipelineResult(mem, nid, sums,
                          [debug EXCEPT !.errors = Append(errs, "emergency_summary_failed")],
                          0)
      ELSE PipelineResult(mem, nid,
                          UpsertSessionSummary(sums, session_id, EmergencySummary(msg_count),
                                               <<>>),
                          [debug EXCEPT !.msg_count = msg_count,
                                        !.should_update_summary = TRUE,
                                        !.summary_updated = TRUE,
                                        !.errors = Append(errs, "emergency_summary")],
                          1)

\* Lines 67-68: get_messages(session_id, limit=50), then [-MX1_RECENT_MESSAGES:].
RecentMessages(msgs) == LastN(GetMessages(msgs, MESSAGES_LIMIT), MX1_RECENT_MESSAGES)

\* run_post_chat_pipeline(session_id, persona). The persona is handed to
\* extract_mx1 (line 84), where build_mx1_prompt writes memory_policy.enabled
\* into the prompt text (memory_extractor.py lines 88-93, 130): no condition of
\* the run reads it.
RunPostChatPipeline(msgs, mem, sums, nid, session_id, persona_arg, out) ==
  LET recent == RecentMessages(msgs)
      msg_count == CountMessages(msgs)
      should_update == OnCadence(msg_count)
      counted == [NoDebug EXCEPT !.msg_count = msg_count,
                                 !.should_update_summary = should_update]
  IN  IF out.fail_at \in {"get_messages", "count_messages"}
      THEN PipelineExcept(msgs, mem, nid, sums, session_id, out, NoDebug)
      ELSE IF out.fail_at = "get_session_summary" \/ out.kind = "raise"
      THEN PipelineExcept(msgs, mem, nid, sums, session_id, out, counted)
      ELSE LET ex == ExtractMx1(IF out.kind = "no_json" THEN EmptyData ELSE out.data)
               failed == out.fail_at = "upsert_memory_item" /\ out.fail_item <= Len(ex.items)
               up == UpsertItems(mem, nid,
                                 IF failed THEN SubSeq(ex.items, 1, out.fail_item - 1)
                                 ELSE ex.items,
                                 session_id)
               upserted == [counted EXCEPT !.memory_items_upserted = Len(ex.items)]
           IN  IF failed
               THEN PipelineExcept(msgs, up.rows, up.nid, sums, session_id, out, counted)
               ELSE IF ~should_update
               THEN PipelineResult(up.rows, up.nid, sums, upserted, 0)
               ELSE IF out.fail_at = "upsert_session_summary"
               THEN PipelineExcept(msgs, up.rows, up.nid, sums, session_id, out, upserted)
               ELSE IF ex.summary # <<>>
               THEN PipelineResult(up.rows, up.nid,
                                   UpsertSessionSummary(sums, session_id,
                                                        ModelSummary(ex.summary),
                                                        ex.open_loops),
                                   [upserted EXCEPT !.summary_updated = TRUE], 1)
               ELSE PipelineResult(up.rows, up.nid,
                                   UpsertSessionSummary(sums, session_id,
                                     FallbackSummaryFromRecent(recent, msg_count),
                                     ex.open_loops),
                                   [upserted EXCEPT
                                      !.summary_updated = TRUE,
                                      !.errors = <<"empty_summary_fallback">>], 1)

(* ------------------------------------------------------------------ *)
(* Tools: tools/runner.py, tools/alerts                                *)
(* ------------------------------------------------------------------ *)
\* One more alert per run.
MaxAlertsThree == 2 + 1

\* create_list[:2] in extract_alerts and alerts[:2] in execute_alert_creation.
MAX_ALERTS == 2

\* build_tools_registry: the registered tools, in registration order.
RegisteredTools == <<"alerts">>

\* An event run_tools builds itself (lines 16-22 and 29-34): the keys tool_id,
\* event, title, message and data ({}). The keys of an alerts event are
\* Absent in it.
RunnerEvent(tool_id, event, title, message) ==
  [tool_id |-> tool_id, event |-> event, title |-> title, message |-> message,
   data |-> "{}", type |-> Absent, items |-> <<>>]

\* The event AlertsTool.run returns (tool.py, lines 54-58): the keys type,
\* count (the length of items) and items, and no other key.
AlertCreatedEvent(created) ==
  [tool_id |-> Absent, event |-> Absent, title |-> Absent, message |-> Absent,
   data |-> Absent, type |-> "alert_created", items |-> created]

\* Values of the model's JSON that are no string: the number 0 and false.
JsonZero == "<0>"
JsonFalse == "<false>"

\* Python truthiness of a JSON scalar: None, "", 0 and false are falsy.
PyTruthy(v) == v \notin {None, "", JsonZero, JsonFalse}

\* extract_alerts, lines 199-203, on one entry of the model's "create" list
\* (an entry that is no object is dropped as one without a title is).
AlertValid(a) == Strip(a.title) # <<>> /\ Strip(a.due_at) # <<>>

\* Lines 206-208: a truthy value other than DAILY and WEEKLY becomes None.
AlertRepeatRule(r) == IF PyTruthy(r) /\ r \notin {"DAILY", "WEEKLY"} THEN None ELSE r

RECURSIVE ValidateAlerts(_)
ValidateAlerts(xs) ==
  IF xs = <<>> THEN <<>>
  ELSE IF AlertValid(Head(xs))
       THEN <<[title |-> Strip(Head(xs).title), due_at |-> Strip(Head(xs).due_at),
               repeat_rule |-> AlertRepeatRule(Head(xs).repeat_rule)]>>
            \o ValidateAlerts(Tail(xs))
       ELSE ValidateAlerts(Tail(xs))

\* extract_alerts on what the call met, once the prompt is built:
\*   call_raise  _ollama_chat raises (caught at line 219)
\*   no_json     no object is recovered from the model's text (line 181)
\*   not_list    the object's "create" is no list (line 189)
\*   ok          the "create" list `create` is recovered
ExtractAlerts(out) ==
  IF out.kind \in {"call_raise", "no_json", "not_list"} THEN <<>>
  ELSE ValidateAlerts(SubSeq(out.create, 1, Min(MAX_ALERTS, Len(out.create))))

\* execute_alert_creation, lines 35-83, from entry number pos of the list on:
\* one create_alert per entry, scope "session"; `fail` holds the positions whose
\* create_alert raises (caught at line 79: the loop goes on).
RECURSIVE ExecuteAlertCreation(_, _, _, _, _, _)
ExecuteAlertCreation(rows, nid, xs, session_id, fail, pos) ==
  IF pos > Min(MAX_ALERTS, Len(xs)) THEN [rows |-> rows, nid |-> nid, created |-> <<>>]
  ELSE LET a == xs[pos]
       IN  IF Strip(a.title) = <<>> \/ Strip(a.due_at) = <<>> \/ pos \in fail
           THEN ExecuteAlertCreation(rows, nid, xs, session_id, fail, pos + 1)
           ELSE LET r == ExecuteAlertCreation(
                           CreateAlert(rows, nid, "session", session_id, Strip(a.title),
                                       <<>>, Strip(a.due_at)),
                           nid + 1, xs, session_id, fail, pos + 1)
                IN  [r EXCEPT !.created =
                       <<[type |-> "alert_created", alert_id |-> nid,
                          title |-> Strip(a.title), due_at |-> Strip(a.due_at)]>>
                       \o r.created]

\* AlertsTool.run, when extract_alerts does not raise.
AlertsToolRun(rows, nid, session_id, out) ==
  LET todo == ExtractAlerts(out)
      ex == ExecuteAlertCreation(rows, nid, todo, session_id, out.fail, 1)
  IN  IF todo = <<>> \/ ex.created = <<>>
      THEN [rows |-> rows, nid |-> nid, events |-> <<>>]
      ELSE [rows |-> ex.rows, nid |-> ex.nid, events |-> <<AlertCreatedEvent(ex.created)>>]

\* run_tools over the registry; `out` is what the alerts tool's extraction met
\* (kind "prompt_raise": extract_alerts raises before its try block, lines
\* 147-166, and so does AlertsTool.run).
RECURSIVE RunTools(_, _, _, _, _, _)
RunTools(tools, rows, nid, session_id, settings, out) ==
  IF tools = <<>> THEN [rows |-> rows, nid |-> nid, events |-> <<>>, runs |-> 0]
  ELSE LET t == Head(tools)
       IN  IF ~EffectiveToolEnabled(settings, session_id, t)
           THEN LET r == RunTools(Tail(tools), rows, nid, session_id, settings, out)
                IN  [r EXCEPT !.events =
                       <<RunnerEvent(t, "skipped", "Tool disabled", <<"disabled", t>>)>>
                       \o @]
           ELSE IF out.kind = "prompt_raise"
           THEN LET r == RunTools(Tail(tools), rows, nid, session_id, settings, out)
                IN  [r EXCEPT !.events =
                       <<RunnerEvent(t, "error", "Tool failed", <<"failed", t>>)>> \o @,
                              !.runs = @ + 1]
           ELSE LET a == AlertsToolRun(rows, nid, session_id, out)
                    r == RunTools(Tail(tools), a.rows, a.nid, session_id, settings, out)
                IN  [r EXCEPT !.events = a.events \o @, !.runs = @ + 1]

\* run_tools over any registry. A tool is its id and what its run does:
\* "events" (it returns one event), "none" (it returns None or []), "raise".
\* The result is the event list and the ids whose run was invoked, in order.

\* The event a tool's own run returns.
OwnEvent(t) ==
  [tool_id |-> Absent, event |-> Absent, title |-> Absent, message |-> Absent,
   data |-> Absent, type |-> "ran", items |-> <<t.id>>]

\* str(e) of the exception the tool's run raises.
ErrorOf(t) == <<"failed", t.id>>

\* Every tool is taken as enabled.
ToolEnabledAlways(enabled_map, tool_id) == TRUE

\* Line 14: enabled_map.get(tool.id, True).
ToolEnabledIn(enabled_map, tool_id) ==
  IF tool_id \in DOMAIN enabled_map THEN enabled_map[tool_id] ELSE TRUE

\* A runner that gives up at the first tool that raises.
RECURSIVE RunToolsStopAtError(_, _)
RunToolsStopAtError(tools, enabled_map) ==
  IF tools = <<>> THEN [events |-> <<>>, invoked |-> <<>>]
  ELSE LET t == Head(tools)
           rest == RunToolsStopAtError(Tail(tools), enabled_map)
       IN  IF ~ToolEnabledIn(enabled_map, t.id)
           THEN [events |-> <<RunnerEvent(t.id, "skipped", "Tool disabled", <<"disabled", t.id>>)>>
                            \o rest.events,
                 invoked |-> rest.invoked]
           ELSE IF t.does = "raise"
           THEN [events |-> <<RunnerEvent(t.id, "error", "Tool failed", ErrorOf(t))>>,
                 invoked |-> <<t.id>>]
           ELSE [events |-> (IF t.does = "events" THEN <<OwnEvent(t)>> ELSE <<>>)
                            \o rest.events,
                 invoked |-> <<t.id>> \o rest.invoked]

\* run_tools, lines 11-35.
RECURSIVE RunToolsOn(_, _)
RunToolsOn(tools, enabled_map) ==
  IF tools = <<>> THEN [events |-> <<>>, invoked |-> <<>>]
  ELSE LET t == Head(tools)
           rest == RunToolsOn(Tail(tools), enabled_map)
       IN  IF ~ToolEnabledIn(enabled_map, t.id)
           THEN [events |-> <<RunnerEvent(t.id, "skipped", "Tool disabled", <<"disabled", t.id>>)>>
                            \o rest.events,
                 invoked |-> rest.invoked]
           ELSE IF t.does = "raise"
           THEN [events |-> <<RunnerEvent(t.id, "error", "Tool failed", ErrorOf(t))>> \o rest.events,
                 invoked |-> <<t.id>> \o rest.invoked]
           ELSE [events |-> (IF t.does = "events" THEN <<OwnEvent(t)>> ELSE <<>>)
                            \o rest.events,
                 invoked |-> <<t.id>> \o rest.invoked]

(* ------------------------------------------------------------------ *)
(* The chat turn: main.py, chat_send_api                               *)
(* ------------------------------------------------------------------ *)
\* Another attempt whenever attempts are left, with feedback or without.
ShouldRetryWithoutFeedback(feedback, att) == att < max_retries - 1

\* Line 390: another attempt is made only with feedback and attempts left.
ShouldRetry(feedback, att) == Truthy(feedback) /\ att < max_retries - 1

\* Line 398: the corrective instruction carrying the feedback.
Corrective(feedback) ==
  "Your previous response was rejected. Feedback: " \o feedback
    \o ". Rewrite it following these instructions."

\* Line 402.
RewriteFinalText(rewritten, draft) == IF Truthy(rewritten) THEN rewritten ELSE draft

\* A block without replacement text that leaves the reply to the fallback.
BlockFinalTextNoRefusal(rewritten) == IF Truthy(rewritten) THEN rewritten ELSE ""

\* Line 407.
BlockFinalText(rewritten) == IF Truthy(rewritten) THEN rewritten ELSE Refusal

\* Lines 411-412.
FallbackFinalText(final, draft) == IF final = "" THEN draft ELSE final

\* A verdict handed to the caller as the loop left it.
VisibleVerdictRaw(v, final) == v

\* Lines 415-416.
VisibleVerdict(v, final) == IF v = "REWRITE" /\ final # "" THEN "PASS" ELSE v

\* A failed generation call that is swallowed: the turn goes on.
OnGenerationFailureGoOn == "resolve"

\* Lines 370-371: a failed generation call ends the turn with HTTP 502.
OnGenerationFailure == "failed"

\* An order in which the tools run before the pipeline.
NextStepToolsFirst(step) ==
  CASE step = "resolve" -> "tools"
    [] step = "tools" -> "pipeline"
    [] step = "pipeline" -> "return"

\* The statements of chat_send_api after the loop, lines 411-446, in the order
\* they are written: add_message, run_post_chat_pipeline, run_tools, return.
NextStep(step) ==
  CASE step = "resolve" -> "pipeline"
    [] step = "pipeline" -> "tools"
    [] step = "tools" -> "return"

NoResult ==
  [status |-> "none", assistant |-> None, verdict |-> None, reason |-> None,
   risk_tags |-> <<>>]

Persisted ==
  [messages |-> messages, memory_items |-> memory_items,
   session_summaries |-> session_summaries, alerts |-> alerts]

TurnOver == pc \in {"idle", "done", "failed", "crashed"}

NoResp == [kind |-> "none", verdict |-> Absent, feedback |-> Absent, rewritten |-> Absent]

\* Lines 320-365: the user message is persisted, the context is built.
StartTurnUpTo(limit) ==
  /\ TurnOver
  /\ turns < limit
  /\ last_resp' = NoResp
  /\ turns' = turns + 1
  /\ turn_pre' = Persisted
  /\ messages' = AddMessage(messages, "user", UserMessage)
  /\ current_history' = AllButLast(GetMessages(messages', MESSAGES_LIMIT))
  /\ attempt' = 0
  /\ final_text' = ""
  /\ final_src' = "none"
  /\ verdict' = "PASS"
  /\ judge_result' = EmptyJudgeResult
  /\ assistant_draft' = None
  /\ gen_calls' = 0
  /\ judge_calls' = 0
  /\ judge_backend_calls' = 0
  /\ judged' = <<>>
  /\ verdicts' = <<>>
  /\ pipeline_runs' = 0
  /\ tool_runs' = 0
  /\ pipeline_debug' = NoDebug
  /\ tool_events' = <<>>
  /\ result' = NoResult
  /\ pc' = "generate"
  /\ UNCHANGED <<judge_enabled, persona, callVars, pipe_in, memory_items, session_summaries, alerts, tool_settings,
                 next_id, writerVars, seqVars>>

StartTurn == StartTurnUpTo(MaxTurns)

\* Lines 368-369: ollama_chat answers with a draft.
GenerateOk ==
  /\ pc = "generate"
  /\ \E d \in Drafts : assistant_draft' = d
  /\ gen_calls' = gen_calls + 1
  /\ pc' = "judge"
  /\ UNCHANGED <<judge_enabled, persona, callVars, pipe_in, last_resp, dbVars, turns, attempt, current_history, final_text,
                 final_src, verdict, judge_result, judge_calls, judge_backend_calls,
                 judged, verdicts, pipeline_runs, tool_runs, pipeline_debug, tool_events,
                 result, turn_pre, writerVars, seqVars>>

\* Lines 370-371: ollama_chat raises; HTTPException 502 leaves chat_send_api.
GenerateFail ==
  /\ pc = "generate"
  /\ gen_calls' = gen_calls + 1
  /\ pc' = OnGenerationFailure
  /\ result' = [NoResult EXCEPT !.status = "502"]
  /\ UNCHANGED <<judge_enabled, persona, callVars, pipe_in, last_resp, dbVars, turns, attempt, current_history, assistant_draft,
                 final_text, final_src, verdict, judge_result, judge_calls,
                 judge_backend_calls, judged, verdicts, pipeline_runs, tool_runs,
                 pipeline_debug, tool_events, turn_pre, writerVars, seqVars>>

\* Lines 374-408: run_judge on the draft, then the branch on its verdict.
JudgeStep(traced) ==
  /\ pc = "judge"
  /\ \E resp \in JudgeResponses :
       LET j == RunJudge(judge_enabled, resp)
           v == j.res.verdict
           feedback == j.res.feedback
           rewritten == j.res.rewritten_response
       IN  /\ last_resp' = IF traced THEN resp ELSE last_resp
           /\ judge_calls' = judge_calls + 1
           /\ judge_backend_calls' = judge_backend_calls + (IF j.called THEN 1 ELSE 0)
           /\ judged' = Append(judged, attempt)
           /\ IF j.raised
              THEN \* the exception leaves chat_send_api: no handler catches it
                   /\ pc' = "crashed"
                   /\ result' = [NoResult EXCEPT !.status = "500"]
                   /\ UNCHANGED <<verdict, judge_result, verdicts, final_text, final_src,
                                  current_history, attempt>>
              ELSE /\ judge_result' = j.res
                   /\ verdict' = v
                   /\ verdicts' = Append(verdicts, v)
                   /\ UNCHANGED result
                   /\ IF v = "PASS"
                      THEN /\ final_text' = assistant_draft
                           /\ final_src' = "draft"
                           /\ pc' = "resolve"
                           /\ UNCHANGED <<current_history, attempt>>
                      ELSE IF v = "REWRITE"
                      THEN IF ShouldRetry(feedback, attempt)
                           THEN /\ current_history' =
                                     current_history
                                     \o <<[role |-> "assistant", content |-> assistant_draft],
                                          [role |-> "system", content |-> Corrective(feedback)]>>
                                /\ attempt' = attempt + 1
                                /\ pc' = IF attempt + 1 < max_retries
                                         THEN "generate" ELSE "resolve"
                                /\ UNCHANGED <<final_text, final_src>>
                           ELSE /\ final_text' = RewriteFinalText(rewritten, assistant_draft)
                                /\ final_src' = IF Truthy(rewritten) THEN "judge" ELSE "draft"
                                /\ pc' = "resolve"
                                /\ UNCHANGED <<current_history, attempt>>
                      ELSE \* v = "BLOCK"
                           /\ final_text' = BlockFinalText(rewritten)
                           /\ final_src' = IF Truthy(rewritten) THEN "judge" ELSE "refusal"
                           /\ pc' = "resolve"
                           /\ UNCHANGED <<current_history, attempt>>
  /\ UNCHANGED <<judge_enabled, persona, callVars, pipe_in, dbVars, turns, assistant_draft, gen_calls, pipeline_runs,
                 tool_runs, pipeline_debug, tool_events, turn_pre, writerVars, seqVars>>

Judge == JudgeStep(FALSE)

\* Lines 411-419: the fallback, the verdict shown to the caller, and the
\* assistant message.
Resolve ==
  /\ pc = "resolve"
  /\ final_text' = FallbackFinalText(final_text, assistant_draft)
  /\ final_src' = IF final_text = "" THEN "draft" ELSE final_src
  /\ verdict' = VisibleVerdict(verdict, final_text')
  /\ messages' = AddMessage(messages, "assistant", final_text')
  /\ pc' = NextStep("resolve")
  /\ UNCHANGED <<judge_enabled, persona, callVars, pipe_in, last_resp, memory_items, session_summaries, alerts, tool_settings,
                 next_id, turns, attempt, current_history, assistant_draft, judge_result,
                 gen_calls, judge_calls, judge_backend_calls, judged, verdicts,
                 pipeline_runs, tool_runs, pipeline_debug, tool_events, result, turn_pre,
                 writerVars, seqVars>>

\* What extract_mx1 can meet in a turn.
K1 == <<"k", "1">>
V1 == <<"v", "1">>
V2 == <<"v", "2">>

\* What a pipeline run meets: `kind` is what extract_mx1 met ("raise": the prompt
\* files or the model call raise; "no_json": no object is recovered from the
\* model's text; "ok": the object `data` is recovered), `fail_at` is the storage
\* call of the run that raises, if one does (for upsert_memory_item the call
\* for item number `fail_item`), and `emergency` is what the except branch meets.
Outcome(kind, data) ==
  [kind |-> kind, data |-> data, fail_at |-> "none", fail_item |-> 1, emergency |-> "ok"]

OneItemData ==
  [items |-> <<[scope |-> "global", key |-> K1, value |-> V1, confidence |-> Num(90)]>>,
   summary |-> Str(<<"s">>), open_loops |-> <<<<"o">>>>]

LowItemData ==
  [items |-> <<[scope |-> "session", key |-> K1, value |-> V2, confidence |-> Num(79)]>>,
   summary |-> Str(<<" ">>), open_loops |-> <<>>]

Mx1Outcomes ==
  { Outcome("raise", EmptyData),
    Outcome("ok", EmptyData),
    Outcome("ok", OneItemData),
    Outcome("ok", LowItemData) }

\* What the alerts tool's extraction meets in a turn: it raises, or it
\* recovers a list of two alerts. (The extractions that recover nothing are
\* the inputs of the calls of the tool on its own, PluginOutcomes.)
AlertOutcomes ==
  { [kind |-> "prompt_raise", create |-> <<>>, fail |-> {}],
    [kind |-> "ok",
     create |-> <<[title |-> <<"t">>, due_at |-> <<"9">>, repeat_rule |-> "MONTHLY"],
                  [title |-> <<" ">>, due_at |-> <<"9">>, repeat_rule |-> None]>>,
     fail |-> {}] }

TwoItemData ==
  [items |-> <<[scope |-> "global", key |-> K1, value |-> V1, confidence |-> Num(90)],
               [scope |-> "session", key |-> K1, value |-> V2, confidence |-> Num(80)]>>,
   summary |-> Str(<<"s">>), open_loops |-> <<>>]

OtherSummaryData == [items |-> <<>>, summary |-> Other, open_loops |-> <<<<"o">>>>]

\* The open loop at position i of a long list: i characters, at the even
\* positions with whitespace around them.
LoopEntry(i) ==
  IF i % 2 = 0 THEN <<" ">> \o [j \in 1..i |-> "o"] \o <<" ">> ELSE [j \in 1..i |-> "o"]

\* A summary patch with more open loops than are kept.
LongLoopsData ==
  [items |-> <<>>, summary |-> Str(<<"s">>),
   open_loops |-> [i \in 1..MaxLoops |-> LoopEntry(i)]]

\* No summary text, and open loops with blank and empty entries among them.
BlankLoopsData ==
  [items |-> <<>>, summary |-> Str(<<" ">>),
   open_loops |-> << <<" ">>, <<" ", "o", " ">>, <<>>, <<"p">> >>]

FailAt(out, call, item, emergency) ==
  [out EXCEPT !.fail_at = call, !.fail_item = item, !.emergency = emergency]

\* The same, with the storage calls that can raise (sqlite3.OperationalError:
\* the database is locked, the disk is full).
PipelineOutcomes ==
  Mx1Outcomes
  \cup { Outcome("no_json", EmptyData),
         Outcome("ok", TwoItemData),
         Outcome("ok", OtherSummaryData),
         Outcome("ok", LongLoopsData),
         Outcome("ok", BlankLoopsData),
         FailAt(Outcome("raise", EmptyData), "none", 1, "count_raises"),
         FailAt(Outcome("raise", EmptyData), "none", 1, "write_raises"),
         FailAt(Outcome("ok", OneItemData), "get_messages", 1, "ok"),
         FailAt(Outcome("ok", OneItemData), "count_messages", 1, "ok"),
         FailAt(Outcome("ok", OneItemData), "get_session_summary", 1, "ok"),
         FailAt(Outcome("ok", TwoItemData), "upsert_memory_item", 1, "ok"),
         FailAt(Outcome("ok", TwoItemData), "upsert_memory_item", 2, "ok"),
         FailAt(Outcome("ok", OneItemData), "upsert_session_summary", 1, "ok"),
         FailAt(Outcome("ok", OneItemData), "upsert_session_summary", 1, "write_raises") }

NoPipeIn ==
  [out |-> Outcome("none", EmptyData), msg_count |-> 0, memory_items |-> {},
   session_summaries |-> {}, next_id |-> 0, summary_writes |-> 0, recent |-> <<>>]

\* Line 422: run_post_chat_pipeline.
PipelineWith(outs, traced) ==
  /\ pc = "pipeline"
  /\ \E out \in outs :
       LET r == RunPostChatPipeline(messages, memory_items, session_summaries, next_id,
                                    S1, persona, out)
       IN  /\ memory_items' = r.memory_items
           /\ session_summaries' = r.session_summaries
           /\ next_id' = r.next_id
           /\ pipeline_debug' = r.debug
           /\ pipe_in' = IF traced
                         THEN [out |-> out, msg_count |-> CountMessages(messages),
                               memory_items |-> memory_items,
                               session_summaries |-> session_summaries,
                               next_id |-> next_id, summary_writes |-> r.summary_writes,
                               recent |-> RecentMessages(messages)]
                         ELSE pipe_in
  /\ pipeline_runs' = pipeline_runs + 1
  /\ pc' = NextStep("pipeline")
  /\ UNCHANGED <<judge_enabled, persona, callVars, last_resp, messages, alerts, tool_settings, turns, attempt,
                 current_history, assistant_draft, final_text, final_src, verdict,
                 judge_result, gen_calls, judge_calls, judge_backend_calls, judged,
                 verdicts, tool_runs, tool_events, result, turn_pre, writerVars, seqVars>>

Pipeline == PipelineWith(Mx1Outcomes, FALSE)

\* Lines 425-444: the enabled map, the tool context, run_tools.
Tools ==
  /\ pc = "tools"
  /\ \E out \in AlertOutcomes :
       LET r == RunTools(RegisteredTools, alerts, next_id, S1, tool_settings, out)
       IN  /\ alerts' = r.rows
           /\ next_id' = r.nid
           /\ tool_events' = r.events
           /\ tool_runs' = tool_runs + r.runs
  /\ pc' = NextStep("tools")
  /\ UNCHANGED <<judge_enabled, persona, callVars, pipe_in, last_resp, messages, memory_items, session_summaries, tool_settings,
                 turns, attempt, current_history, assistant_draft, final_text, final_src,
                 verdict, judge_result, gen_calls, judge_calls, judge_backend_calls,
                 judged, verdicts, pipeline_runs, pipeline_debug, result, turn_pre,
                 writerVars, seqVars>>

\* Lines 446-457: the turn result.
Return ==
  /\ pc = "return"
  /\ result' = [status |-> "ok", assistant |-> final_text, verdict |-> verdict,
                reason |-> judge_result.reason, risk_tags |-> judge_result.risk_tags]
  /\ pc' = "done"
  /\ UNCHANGED <<judge_enabled, persona, callVars, pipe_in, last_resp, dbVars, turns, attempt, current_history, assistant_draft,
                 final_text, final_src, verdict, judge_result, gen_calls, judge_calls,
                 judge_backend_calls, judged, verdicts, pipeline_runs, tool_runs,
                 pipeline_debug, tool_events, turn_pre, writerVars, seqVars>>

(* ------------------------------------------------------------------ *)
(* Initial states and the turn specification                           *)
(* ------------------------------------------------------------------ *)
\* The session is new, or two turns of it were completed before.
InitialMessages ==
  { <<>>,
    <<[role |-> "user", content |-> UserMessage], [role |-> "assistant", content |-> "d1"],
      [role |-> "user", content |-> UserMessage], [role |-> "assistant", content |-> "r1"]>> }

\* No override is stored.
InitialToolSettings == { {} }

NoArgs == [scope |-> "global", session_id |-> None, key |-> K1, value |-> V1,
           confidence |-> 80]

Writers == {1, 2}

InitRest ==
  /\ memory_items = {}
  /\ alerts = {}
  /\ next_id = 2
  /\ pc = "idle"
  /\ turns = 0
  /\ attempt = 0
  /\ current_history = <<>>
  /\ assistant_draft = None
  /\ final_text = ""
  /\ final_src = "none"
  /\ verdict = "PASS"
  /\ judge_result = EmptyJudgeResult
  /\ gen_calls = 0
  /\ judge_calls = 0
  /\ judge_backend_calls = 0
  /\ judged = <<>>
  /\ verdicts = <<>>
  /\ last_resp = NoResp
  /\ pipeline_runs = 0
  /\ tool_runs = 0
  /\ pipeline_debug = NoDebug
  /\ tool_events = <<>>
  /\ result = NoResult
  /\ turn_pre = [messages |-> messages, memory_items |-> {},
                 session_summaries |-> session_summaries, alerts |-> {}]
  /\ w_pc = [p \in Writers |-> "idle"]
  /\ w_args = [p \in Writers |-> NoArgs]
  /\ w_existing = [p \in Writers |-> NoRow]
  /\ last_upsert = [op |-> "none", args |-> NoArgs, pre |-> {}]
  /\ upserts = 0

NoCall == [fn |-> "none"]

InitCalls ==
  /\ pipe_in = NoPipeIn
  /\ fn_in = NoCall
  /\ fn_out = NoCall
  /\ alert_terminal = <<>>
  /\ calls = 0

Init ==
  /\ judge_enabled \in BOOLEAN
  /\ persona = Persona(TRUE)
  /\ messages \in InitialMessages
  /\ tool_settings \in InitialToolSettings
  /\ session_summaries = {}
  /\ InitRest
  /\ InitCalls

Next ==
  \/ StartTurn
  \/ GenerateOk
  \/ GenerateFail
  \/ Judge
  \/ Resolve
  \/ Pipeline
  \/ Tools
  \/ Return

Spec == Init /\ [][Next]_vars

\* The same turn, with what each run_judge call met kept in last_resp.
StartTracedTurn == StartTurnUpTo(MaxTracedTurns)

JudgeTraced == JudgeStep(TRUE)

NextTraced ==
  \/ StartTracedTurn
  \/ GenerateOk
  \/ GenerateFail
  \/ JudgeTraced
  \/ Resolve
  \/ Pipeline
  \/ Tools
  \/ Return

SpecTraced == Init /\ [][NextTraced]_vars

(* ------------------------------------------------------------------ *)
(* The turn with the judge gate disabled and every failure the         *)
(* post-chat pipeline can meet, in sessions of several lengths         *)
(* ------------------------------------------------------------------ *)
\* n completed turns.
RECURSIVE History(_)
History(n) ==
  IF n = 0 THEN <<>>
  ELSE History(n - 1) \o <<[role |-> "user", content |-> UserMessage],
                           [role |-> "assistant", content |-> "d1"]>>

\* Two completed turns; the same and a turn that failed in generation; five
\* completed turns.
PipeHistories ==
  { History(2),
    Append(History(2), [role |-> "user", content |-> UserMessage]),
    History(5) }

\* A session that got past 6 messages has the summary written at that count.
InitPipe ==
  /\ judge_enabled = FALSE
  /\ persona = Persona(TRUE)
  /\ messages \in PipeHistories
  /\ tool_settings = {}
  /\ session_summaries =
       IF Len(messages) >= SUMMARY_CADENCE
       THEN {[session_id |-> S1, summary |-> ModelSummary(<<"s", "0">>),
              open_loops |-> <<>>]}
       ELSE {}
  /\ InitRest
  /\ InitCalls

StartPipeTurn == StartTurnUpTo(MaxPipeTurns)

PipelineTraced == PipelineWith(PipelineOutcomes, TRUE)

NextPipe ==
  \/ StartPipeTurn
  \/ GenerateOk
  \/ GenerateFail
  \/ Judge
  \/ Resolve
  \/ PipelineTraced
  \/ Tools
  \/ Return

SpecPipe == InitPipe /\ [][NextPipe]_vars

(* ------------------------------------------------------------------ *)
(* The turn in sessions of up to 50 stored messages and more           *)
(* ------------------------------------------------------------------ *)
\* n completed turns of earlier days.
RECURSIVE OldHistory(_)
OldHistory(n) ==
  IF n = 0 THEN <<>>
  ELSE OldHistory(n - 1) \o <<[role |-> "user", content |-> "old u"],
                              [role |-> "assistant", content |-> "old a"]>>

\* Sessions of 8, 48 and 50 stored messages.
LongHistories == { OldHistory(4), OldHistory(24), OldHistory(25) }

InitLong ==
  /\ judge_enabled = FALSE
  /\ persona \in Personas
  /\ messages \in LongHistories
  /\ tool_settings = {}
  /\ session_summaries =
       {[session_id |-> S1, summary |-> ModelSummary(<<"s", "0">>), open_loops |-> <<>>]}
  /\ InitRest
  /\ InitCalls

StartLongTurn == StartTurnUpTo(MaxLongTurns)

\* The key of the candidate at position i of the model's list.
PositionKey(i) ==
  <<"k", <<"1", "2", "3", "4", "5", "6", "7", "8", "9">>[i]>>

\* A list of n candidates with a key each; those at the positions in `low`
\* have a confidence under the threshold.
ItemList(n, low) ==
  [i \in 1..n |->
     [scope |-> "global", key |-> PositionKey(i), value |-> V1,
      confidence |-> IF i \in low THEN Num(10) ELSE Num(90)]]

\* Answers of the model with 5 candidates and more.
ManyItemOutcomes ==
  { Outcome("ok", [items |-> ItemList(n, low), summary |-> Str(<<"s">>),
                   open_loops |-> <<>>]) :
      n \in 5..MaxModelItems, low \in {{}, {2}, {1, 2, 3, 4, 5}} }

PipelineLong == PipelineWith(Mx1Outcomes \cup ManyItemOutcomes, TRUE)

NextLong ==
  \/ StartLongTurn
  \/ GenerateOk
  \/ GenerateFail
  \/ Judge
  \/ Resolve
  \/ PipelineLong
  \/ Tools
  \/ Return

SpecLong == InitLong /\ [][NextLong]_vars

(* ------------------------------------------------------------------ *)
(* validate_mx1_output called on one candidate                         *)
(* ------------------------------------------------------------------ *)
Mx1Confidences ==
  { Num(0 - 10), Num(0), Num(79), Num(80), Num(81), Num(100), Num(150), NaN, Other,
    Missing }

\* Thresholds MX1_CONFIDENCE_THRESHOLD can be set to, the default among them.
Mx1Thresholds == {0, MX1_CONFIDENCE_THRESHOLD, 100}

Mx1Candidates ==
  { [scope |-> sc, key |-> k, value |-> v, confidence |-> c] :
      sc \in {"global", "session", "user"}, k \in {K1, <<"K">>},
      v \in {V1, <<>>, <<" ">>, <<" ", "v">>},
      c \in Mx1Confidences }

InitMx1 ==
  /\ judge_enabled = TRUE
  /\ persona = Persona(TRUE)
  /\ messages = <<>>
  /\ tool_settings = {}
  /\ session_summaries = {}
  /\ InitRest
  /\ pipe_in = NoPipeIn
  /\ alert_terminal = <<>>
  /\ calls = 0
  /\ fn_in \in { [fn |-> "validate_mx1_output", item |-> it, threshold |-> th] :
                    it \in Mx1Candidates, th \in Mx1Thresholds }
  /\ fn_out = NoCall

\* validate_mx1_output(data, confidence_threshold) on an object with one item.
ValidateCall ==
  /\ calls = 0
  /\ calls' = 1
  /\ fn_out' = ValidateMx1Output([items |-> <<fn_in.item>>, summary |-> Missing,
                                  open_loops |-> <<>>],
                                 fn_in.threshold, {"global", "session"})
  /\ UNCHANGED <<judge_enabled, persona, dbVars, turnVars, writerVars, seqVars, pipe_in, fn_in,
                 alert_terminal>>

NextMx1 == ValidateCall

SpecMx1 == InitMx1 /\ [][NextMx1]_vars

(* ------------------------------------------------------------------ *)
(* run_tools called on registries of up to MaxTools tools              *)
(* ------------------------------------------------------------------ *)
ToolIds == <<"alerts", "notes", "tasks", "mail">>

ToolBehaviours == {"events", "none", "raise"}

\* The registries: the first n tool ids, each with one behaviour.
Registries ==
  UNION { { [i \in 1..n |-> [id |-> ToolIds[i], does |-> does[i]]] :
              does \in [1..n -> ToolBehaviours] } : n \in 1..MaxTools }

\* The maps get_effective_tool_enabled_map can hand over, and maps that lack
\* an id.
EnabledMaps ==
  UNION { [ids -> BOOLEAN] : ids \in SUBSET {ToolIds[i] : i \in 1..MaxTools} }

InitTools ==
  /\ judge_enabled = TRUE
  /\ persona = Persona(TRUE)
  /\ messages = <<>>
  /\ tool_settings = {}
  /\ session_summaries = {}
  /\ InitRest
  /\ pipe_in = NoPipeIn
  /\ alert_terminal = <<>>
  /\ calls = 0
  /\ fn_in \in { [fn |-> "run_tools", tools |-> reg, enabled_map |-> em] :
                    reg \in Registries, em \in EnabledMaps }
  /\ fn_out = NoCall

\* run_tools(registry, ctx, enabled_map).
RunToolsCall ==
  /\ calls = 0
  /\ calls' = 1
  /\ fn_out' = RunToolsOn(fn_in.tools, fn_in.enabled_map)
  /\ UNCHANGED <<judge_enabled, persona, dbVars, turnVars, writerVars, seqVars, pipe_in, fn_in,
                 alert_terminal>>

NextTools == RunToolsCall

SpecTools == InitTools /\ [][NextTools]_vars

(* ------------------------------------------------------------------ *)
(* upsert_memory_item, one call after the other                        *)
(* ------------------------------------------------------------------ *)
K2 == <<"k", "2">>

\* The (scope, session_id) pairs the callers pass: the pipeline passes None with
\* global and the session with session; POST /memory passes what the request
\* holds, and refuses session scope without a session_id.
CallerScopes ==
  { <<"global", None>>, <<"global", S1>>, <<"session", S1>>, <<"session", S2>> }

UpsertArgs ==
  { [scope |-> sc[1], session_id |-> sc[2], key |-> k, value |-> v, confidence |-> c] :
      sc \in CallerScopes, k \in {K1, K2}, v \in {V1, V2}, c \in {80} }

\* upsert_memory_item, lines 202-236, with no other call in between.
SeqUpsert ==
  /\ upserts < MaxUpserts
  /\ \E a \in UpsertArgs :
       \E e \in FetchOneIds(memory_items, a.scope, a.key, a.session_id) :
         /\ memory_items' = UpsertMemoryWith(memory_items, e, next_id, a.scope, a.key,
                                             a.value, a.confidence, a.session_id)
         /\ next_id' = IF e = NoRow THEN next_id + 1 ELSE next_id
         /\ last_upsert' = [op |-> "upsert", args |-> a, pre |-> memory_items]
  /\ upserts' = upserts + 1
  /\ UNCHANGED <<judge_enabled, persona, callVars, pipe_in, messages, session_summaries, alerts, tool_settings,
                 turnVars, writerVars>>

\* delete_memory_item, lines 270-275.
SeqDelete ==
  /\ upserts < MaxUpserts
  /\ \E r \in memory_items :
       /\ memory_items' = DeleteMemoryRow(memory_items, r.id)
       /\ last_upsert' = [op |-> "delete", args |-> NoArgs, pre |-> memory_items]
  /\ upserts' = upserts + 1
  /\ UNCHANGED <<judge_enabled, persona, callVars, pipe_in, messages, session_summaries, alerts, tool_settings,
                 next_id, turnVars, writerVars>>

InitOne ==
  /\ judge_enabled = TRUE
  /\ persona = Persona(TRUE)
  /\ messages = <<>>
  /\ tool_settings = {}
  /\ session_summaries = {}
  /\ InitRest
  /\ InitCalls

NextSeq == SeqUpsert \/ SeqDelete

SpecSeq == InitOne /\ [][NextSeq]_vars

(* ------------------------------------------------------------------ *)
(* upsert_memory_item, two calls at a time                             *)
(* Each call has its own connection; the SELECT is one statement, the  *)
(* INSERT or UPDATE with its commit another. chat_send_api is a sync   *)
(* handler: the turns of two sessions run on two threads.              *)
(* ------------------------------------------------------------------ *)
\* Writer p is the pipeline of a turn in session p: it stores global items
\* under no session and session items under its own.
SessionOf(p) == IF p = 1 THEN S1 ELSE S2

WriterArgs(p) ==
  { [scope |-> sc, session_id |-> IF sc = "session" THEN SessionOf(p) ELSE None,
     key |-> K1, value |-> v, confidence |-> 80] :
      sc \in {"global", "session"}, v \in {IF p = 1 THEN V1 ELSE V2} }

\* Lines 202-212: the call is entered and its SELECT is run.
WSelect(p) ==
  /\ w_pc[p] = "idle"
  /\ upserts < MaxUpserts
  /\ upserts' = upserts + 1
  /\ \E a \in WriterArgs(p) :
       \E e \in FetchOneIds(memory_items, a.scope, a.key, a.session_id) :
         /\ w_args' = [w_args EXCEPT ![p] = a]
         /\ w_existing' = [w_existing EXCEPT ![p] = e]
  /\ w_pc' = [w_pc EXCEPT ![p] = "write"]
  /\ UNCHANGED <<judge_enabled, persona, callVars, pipe_in, dbVars, turnVars, last_upsert>>

\* Lines 214-236: UPDATE the row found, or INSERT a new one; commit.
WWrite(p) ==
  /\ w_pc[p] = "write"
  /\ memory_items' = UpsertMemoryWith(memory_items, w_existing[p], next_id, w_args[p].scope,
                                      w_args[p].key, w_args[p].value,
                                      w_args[p].confidence, w_args[p].session_id)
  /\ next_id' = IF w_existing[p] = NoRow THEN next_id + 1 ELSE next_id
  /\ w_pc' = [w_pc EXCEPT ![p] = "idle"]
  /\ UNCHANGED <<judge_enabled, persona, callVars, pipe_in, messages, session_summaries, alerts, tool_settings,
                 turnVars, w_args, w_existing, seqVars>>

NextConc == \E p \in Writers : WSelect(p) \/ WWrite(p)

SpecConc == InitOne /\ [][NextConc]_vars

(* ------------------------------------------------------------------ *)
(* Tool settings: PUT /tools/settings and the effective map            *)
(* ------------------------------------------------------------------ *)
\* What upsert_tool_setting_api lets through: session scope needs a
\* session_id, global scope takes what the request holds.
SettingArgs ==
  { [scope |-> sc[1], session_id |-> sc[2], tool_id |-> t, enabled |-> en] :
      sc \in CallerScopes, t \in {"alerts", "notes"}, en \in BOOLEAN }

\* The tool id lists the map is asked for.
ToolIdLists == { <<"alerts">>, <<"alerts", "notes">>, <<"tasks", "notes">> }

InitSettings ==
  /\ judge_enabled = TRUE
  /\ persona = Persona(TRUE)
  /\ messages = <<>>
  /\ tool_settings = {}
  /\ session_summaries = {}
  /\ InitRest
  /\ InitCalls

\* upsert_tool_setting, lines 463-497. The store is filled first and read after.
UpsertToolSettingCall ==
  /\ calls < MaxCalls
  /\ fn_in = NoCall
  /\ calls' = calls + 1
  /\ \E a \in SettingArgs :
       \E e \in FetchOneSettingIds(tool_settings, a.scope, a.tool_id, a.session_id) :
         /\ tool_settings' = UpsertToolSettingWith(tool_settings, e, next_id, a.scope,
                                                   a.tool_id, a.enabled, a.session_id)
         /\ next_id' = IF e = NoRow THEN next_id + 1 ELSE next_id
  /\ UNCHANGED <<judge_enabled, persona, messages, memory_items, session_summaries, alerts,
                 turnVars, writerVars, seqVars, pipe_in, fn_in, fn_out, alert_terminal>>

\* get_effective_tool_enabled_map(session_id, tool_ids), lines 530-555.
GetEffectiveCall ==
  /\ fn_in = NoCall
  /\ \E sid \in {S1, S2}, ids \in ToolIdLists :
       /\ fn_in' = [fn |-> "get_effective_tool_enabled_map", session_id |-> sid,
                    tool_ids |-> ids, settings |-> tool_settings]
       /\ fn_out' \in { m \in [{ids[i] : i \in DOMAIN ids} -> BOOLEAN] :
                           \A i \in DOMAIN ids :
                             m[ids[i]] \in EffectiveToolEnabledValues(tool_settings, sid,
                                                                      ids[i]) }
  /\ UNCHANGED <<judge_enabled, persona, dbVars, turnVars, writerVars, seqVars, pipe_in,
                 alert_terminal, calls>>

NextSettings == UpsertToolSettingCall \/ GetEffectiveCall

SpecSettings == InitSettings /\ [][NextSettings]_vars

(* ------------------------------------------------------------------ *)
(* Alerts: create_alert and the status updates                         *)
(* ------------------------------------------------------------------ *)
AlertStatuses == {"active", "done", "cancelled"}

\* The first terminal status an alert is given is kept in alert_terminal.
NoteTerminal(alert_id, status) ==
  IF status \in {"done", "cancelled"} /\ alert_id \notin DOMAIN alert_terminal
  THEN alert_terminal @@ (alert_id :> status)
  ELSE alert_terminal

\* create_alert, lines 333-356.
CreateAlertCall ==
  /\ calls < MaxAlertCalls
  /\ calls' = calls + 1
  /\ \E sc \in {<<"session", S1>>, <<"global", None>>} :
       alerts' = CreateAlert(alerts, next_id, sc[1], sc[2], <<"t">>, <<>>, <<"9">>)
  /\ next_id' = next_id + 1
  /\ UNCHANGED <<judge_enabled, persona, messages, memory_items, session_summaries, tool_settings,
                 turnVars, writerVars, seqVars, pipe_in, fn_in, fn_out, alert_terminal>>

\* The status of an alert that exists is set.
SetAlertStatus(alert_id, status) ==
  /\ calls < MaxAlertCalls
  /\ calls' = calls + 1
  /\ alerts' = UpdateAlertStatus(alerts, alert_id, status)
  /\ alert_terminal' = NoteTerminal(alert_id, status)
  /\ UNCHANGED <<judge_enabled, persona, messages, memory_items, session_summaries, tool_settings,
                 next_id, turnVars, writerVars, seqVars, pipe_in, fn_in, fn_out>>

\* mark_alert_done, POST /alerts/{alert_id}/done.
MarkAlertDone == \E r \in alerts : SetAlertStatus(r.id, "done")

\* mark_alert_cancelled, POST /alerts/{alert_id}/cancel.
MarkAlertCancelled == \E r \in alerts : SetAlertStatus(r.id, "cancelled")

\* update_alert_status with any status it accepts.
UpdateAlertStatusCall == \E r \in alerts, st \in AlertStatuses : SetAlertStatus(r.id, st)

InitAlerts == InitSettings

NextAlerts ==
  \/ CreateAlertCall
  \/ MarkAlertDone
  \/ MarkAlertCancelled
  \/ UpdateAlertStatusCall

SpecAlerts == InitAlerts /\ [][NextAlerts]_vars

(* ------------------------------------------------------------------ *)
(* The tools step of the turn on its own: the enabled map, run_tools   *)
(* over the registry, the alerts plugin and the alerts table           *)
(* ------------------------------------------------------------------ *)
AlertRepeatRules == {None, "", "DAILY", "WEEKLY", "MONTHLY", JsonZero, JsonFalse}

\* An entry with a title and a due timestamp, both with blanks around them.
GoodAlert(rr) == [title |-> <<" ", "t">>, due_at |-> <<"9", " ">>, repeat_rule |-> rr]

AlertEntries ==
  { GoodAlert(None),
    [title |-> <<" ">>, due_at |-> <<"9">>, repeat_rule |-> None],
    [title |-> <<"t">>, due_at |-> <<>>, repeat_rule |-> "DAILY"] }

\* The "create" lists of the model's answer: up to MaxCreate entries, and one
\* entry with each value of repeat_rule.
CreateLists ==
  UNION { [1..n -> AlertEntries] : n \in 0..MaxCreate }
  \cup { <<GoodAlert(rr)>> : rr \in AlertRepeatRules }

\* What a run of the alerts plugin can meet; `fail` holds the create_alert
\* calls that raise (sqlite3.OperationalError).
PluginOutcomes ==
  { [kind |-> k, create |-> <<>>, fail |-> {}] :
      k \in {"prompt_raise", "call_raise", "no_json", "not_list"} }
  \cup { [kind |-> "ok", create |-> c, fail |-> {}] : c \in CreateLists }
  \cup { [kind |-> "ok", create |-> c, fail |-> f] :
           c \in { <<GoodAlert(None)>>,
                   <<GoodAlert(None), GoodAlert("DAILY")>>,
                   <<GoodAlert(None), GoodAlert("DAILY"), GoodAlert("WEEKLY")>> },
           f \in SUBSET (1..MAX_ALERTS) }

\* The alerts tool is left enabled, or switched off for the session.
InitPlugin ==
  /\ judge_enabled = TRUE
  /\ persona = Persona(TRUE)
  /\ messages = <<>>
  /\ tool_settings \in
       { {},
         {[id |-> 1, scope |-> "session", session_id |-> S1, tool_id |-> "alerts",
           enabled |-> FALSE]} }
  /\ session_summaries = {}
  /\ InitRest
  /\ InitCalls

\* chat_send_api, lines 425-444: get_effective_tool_enabled_map and run_tools.
\* fn_in keeps what the step met and the alerts table before it, fn_out the
\* event list, the tool runs invoked and what extract_alerts returned.
ToolsCall ==
  /\ calls < MaxPluginCalls
  /\ calls' = calls + 1
  /\ \E out \in PluginOutcomes :
       LET r == RunTools(RegisteredTools, alerts, next_id, S1, tool_settings, out)
       IN  /\ alerts' = r.rows
           /\ next_id' = r.nid
           /\ fn_in' = [fn |-> "tools_step", out |-> out, alerts |-> alerts]
           /\ fn_out' = [events |-> r.events, runs |-> r.runs,
                         extracted |-> IF r.runs = 0 \/ out.kind = "prompt_raise"
                                       THEN <<>> ELSE ExtractAlerts(out)]
  /\ UNCHANGED <<judge_enabled, persona, messages, memory_items, session_summaries, tool_settings,
                 turnVars, writerVars, seqVars, pipe_in, alert_terminal>>

NextPlugin == ToolsCall

SpecPlugin == InitPlugin /\ [][NextPlugin]_vars

(* ------------------------------------------------------------------ *)
(* run_judge called on its own: the reason and risk_tags it returns    *)
(* ------------------------------------------------------------------ *)
REASON_MAX == 200
TAG_MAX == 40
TAGS_MAX == 10
RAW_QUOTE_MAX == 200

\* A string of n characters.
Text(n) == [i \in 1..n |-> "x"]

\* s[:n]
StrSlice(s, n) == SubSeq(s, 1, Min(Len(s), n))

\* "judge_disabled", line 78.
JudgeDisabledReason ==
  <<"j", "u", "d", "g", "e", "_", "d", "i", "s", "a", "b", "l", "e", "d">>

\* "judge_failed:", line 147.
JudgeFailedPrefix == <<"j", "u", "d", "g", "e", "_", "f", "a", "i", "l", "e", "d", ":">>

\* "Judge did not return JSON: ", line 113.
NoJsonPrefix ==
  <<"J", "u", "d", "g", "e", " ", "d", "i", "d", " ", "n", "o", "t", " ", "r", "e", "t",
    "u", "r", "n", " ", "J", "S", "O", "N", ":", " ">>

\* str(e) of the exception caught at line 145: the ValueError of line 113
\* quotes the first 200 characters of the response, every other exception
\* carries the text its raiser gave it.
ExceptionText(resp) ==
  IF resp.kind = "no_json" THEN NoJsonPrefix \o StrSlice(resp.raw, RAW_QUOTE_MAX)
  ELSE resp.err

\* Line 141: str(reason)[:200], reason being obj.get("reason", "").
JudgeReason(reason) ==
  StrSlice(IF reason.tag = "missing" THEN <<>> ELSE reason.val, REASON_MAX)

\* Lines 133-135 and 142: [str(t)[:40] for t in risk_tags[:10]], risk_tags
\* being obj.get("risk_tags", []) or [] when that is no list.
JudgeRiskTags(risk_tags) ==
  LET tags == IF risk_tags.tag = "list" THEN risk_tags.val ELSE <<>>
  IN  [i \in 1..Min(Len(tags), TAGS_MAX) |-> StrSlice(tags[i], TAG_MAX)]

\* The reason and the risk_tags of the record run_judge returns, per path,
\* as character strings; [raised |-> TRUE] where run_judge returns nothing.
RunJudgeFields(enabled, resp) ==
  IF ~JudgeGateOn(enabled)
  THEN [raised |-> FALSE, path |-> "disabled", reason |-> JudgeDisabledReason,
        risk_tags |-> <<>>]
  ELSE IF RaisesOutsideTry(resp)
  THEN [raised |-> TRUE, path |-> "raise", reason |-> <<>>, risk_tags |-> <<>>]
  ELSE IF RaisesInsideTry(resp)
  THEN [raised |-> FALSE, path |-> "fallback",
        reason |-> JudgeFailedPrefix \o ExceptionText(resp),
        risk_tags |-> << <<"j", "u", "d", "g", "e", "_", "e", "r", "r", "o", "r">> >>]
  ELSE [raised |-> FALSE,
        path |-> IF JudgeFromObject(resp).verdict = NormalizeVerdict(resp.verdict)
                 THEN "success" ELSE "downgrade",
        reason |-> JudgeReason(resp.reason),
        risk_tags |-> JudgeRiskTags(resp.risk_tags)]

\* A field that holds a JSON list.
JsonList(xs) == [tag |-> "list", val |-> xs, num |-> 0]

\* Lists of risk tags at and over both limits.
TagLists ==
  { JsonList([i \in 1..n |-> Text(m)]) : n \in {0, TAGS_MAX, TAGS_MAX + 1}, m \in {TAG_MAX, TAG_MAX + 1} }

\* What a run_judge call meets, with the fields lines 132-147 read: reasons
\* and exception texts at and over the limit.
JudgeFieldResponses ==
  [kind : {"object"}, verdict : {"PASS", "REWRITE"}, feedback : {Absent, "fb"},
   rewritten : {Absent},
   reason : {Missing, Str(Text(0)), Str(Text(REASON_MAX)), Str(Text(REASON_MAX + 1))},
   risk_tags : TagLists \cup {Missing, Other}, raw : {<<>>}, err : {<<>>}]
  \cup
  [kind : {"prompt_error", "transport_error", "timeout", "malformed_json"},
   verdict : {Absent}, feedback : {Absent}, rewritten : {Absent}, reason : {Missing},
   risk_tags : {Missing}, raw : {<<>>},
   err : {Text(20), Text(REASON_MAX - Len(JudgeFailedPrefix)),
          Text(REASON_MAX - Len(JudgeFailedPrefix) + 1)}]
  \cup
  [kind : {"no_json"}, verdict : {Absent}, feedback : {Absent}, rewritten : {Absent},
   reason : {Missing}, risk_tags : {Missing},
   raw : {Text(0), Text(REASON_MAX - Len(JudgeFailedPrefix) - Len(NoJsonPrefix)),
          Text(REASON_MAX - Len(JudgeFailedPrefix) - Len(NoJsonPrefix) + 1),
          Text(2 * RAW_QUOTE_MAX)},
   err : {<<>>}]

(* ------------------------------------------------------------------ *)
(* The three lenient JSON recoveries, on one response text             *)
(* ------------------------------------------------------------------ *)
\* A response text is a sequence of tokens: "{" and "}", a member of an object
\* ("B" is "verdict": "BLOCK", "m" any other member), "t" a word of prose,
\* " " whitespace, "F" the fence opener ```json and "E" the fence ```.
\* Objects are flat: a brace inside an object makes it malformed.
JsonMembers == {"B", "m"}

\* What a parser gives where it recovers nothing; no span and no object holds
\* this token.
NoObject == <<"<no object>">>

MinOf(S) == CHOOSE x \in S : \A y \in S : x <= y
MaxOf(S) == CHOOSE x \in S : \A y \in S : x >= y

\* str.find and str.rfind, 0 for -1.
FindTok(s, tok) ==
  LET at == {i \in 1..Len(s) : s[i] = tok} IN IF at = {} THEN 0 ELSE MinOf(at)

RFindTok(s, tok) ==
  LET at == {i \in 1..Len(s) : s[i] = tok} IN IF at = {} THEN 0 ELSE MaxOf(at)

\* json.loads of a span: the object, as the sequence of its members, or
\* NoObject where it raises.
JsonLoads(span) ==
  IF /\ Len(span) >= 2
     /\ span[1] = "{"
     /\ span[Len(span)] = "}"
     /\ \A i \in 2..(Len(span) - 1) : span[i] \in JsonMembers \cup Whitespace
  THEN SelectSeq(span, LAMBDA x : x \in JsonMembers)
  ELSE NoObject

\* The text from the first "{" to the last "}", or NoObject.
OuterBraces(s) ==
  LET start == FindTok(s, "{")
      end == RFindTok(s, "}")
  IN  IF start = 0 \/ end = 0 \/ end <= start THEN NoObject ELSE SubSeq(s, start, end)

\* judge_agent.py lines 109-115: no fence handling.
JudgeParse(raw) ==
  LET span == OuterBraces(Strip(raw))
  IN  IF span = NoObject THEN NoObject ELSE JsonLoads(span)

\* The index of the first token after position k that is no whitespace, or 0.
NextNonWs(s, k) ==
  LET at == {i \in (k + 1)..Len(s) : s[i] \notin Whitespace}
  IN  IF at = {} THEN 0 ELSE MinOf(at)

\* The closing braces a fenced block opened at "{" in position j can end in:
\* \} \s* ``` , where ``` is also the head of ```json.
FenceCloses(s, j) ==
  {k \in (j + 1)..Len(s) :
     /\ s[k] = "}"
     /\ NextNonWs(s, k) # 0
     /\ s[NextNonWs(s, k)] \in {"E", "F"}}

\* The match of ```json\s*(\{.*?\})\s*``` that starts at position i.
FenceAt(s, i) ==
  LET j == NextNonWs(s, i)
  IN  IF s[i] = "F" /\ j # 0 /\ s[j] = "{" /\ FenceCloses(s, j) # {}
      THEN SubSeq(s, j, MinOf(FenceCloses(s, j)))
      ELSE NoObject

\* re.search of the fence pattern: group 1 of the leftmost match.
FenceSearch(s) ==
  LET at == {i \in 1..Len(s) : FenceAt(s, i) # NoObject}
  IN  IF at = {} THEN NoObject ELSE FenceAt(s, MinOf(at))

\* memory_extractor.py _extract_json_object.
ExtractJsonObject(text) ==
  LET s == Strip(text)
      fence == FenceSearch(s)
      fenced == IF fence = NoObject THEN NoObject ELSE JsonLoads(fence)
      blob == OuterBraces(s)
  IN  IF fenced # NoObject THEN fenced
      ELSE IF blob = NoObject THEN NoObject
      ELSE IF JsonLoads(blob) # NoObject THEN JsonLoads(blob)
      ELSE JsonLoads(SubSeq(blob, 1, RFindTok(blob, "}")))

\* alert_extractor.py _extract_json_from_response.
ExtractJsonFromResponse(text) ==
  LET s == Strip(text)
      json_block == FenceSearch(s)
      fenced == IF json_block = NoObject THEN NoObject ELSE JsonLoads(json_block)
      first_brace == FindTok(s, "{")
      last_brace == RFindTok(s, "}")
  IN  IF fenced # NoObject THEN fenced
      ELSE IF first_brace # 0 /\ last_brace > first_brace
      THEN JsonLoads(SubSeq(s, first_brace, last_brace))
      ELSE NoObject

\* obj.get("verdict") of a recovered object.
VerdictMember(obj) == IF \E i \in DOMAIN obj : obj[i] = "B" THEN "BLOCK" ELSE Absent

\* What run_judge meets when the model answers with the text raw.
JudgeRespOfText(raw) ==
  LET obj == JudgeParse(raw)
  IN  [kind |-> IF obj # NoObject THEN "object"
                ELSE IF OuterBraces(Strip(raw)) = NoObject THEN "no_json"
                ELSE "malformed_json",
       verdict |-> IF obj = NoObject THEN Absent ELSE VerdictMember(obj),
       feedback |-> Absent, rewritten |-> Absent]

\* The pieces response texts are made of.
Segments ==
  { <<"t">>, <<" ">>, <<"{">>, <<"}">>, <<"F">>, <<"E">>,
    <<"{", "B", "}">>, <<"{", " ", "m", "}">>, <<"F", " ", "{", "B", "}", " ", "E">> }

RECURSIVE TextsOf(_)
TextsOf(n) ==
  IF n = 0 THEN { <<>> }
  ELSE TextsOf(n - 1) \cup { t \o s : t \in TextsOf(n - 1), s \in Segments }

InitJudge ==
  /\ judge_enabled \in BOOLEAN
  /\ persona = Persona(TRUE)
  /\ messages = <<>>
  /\ tool_settings = {}
  /\ session_summaries = {}
  /\ InitRest
  /\ pipe_in = NoPipeIn
  /\ alert_terminal = <<>>
  /\ calls = 0
  /\ fn_in \in { [fn |-> "run_judge", resp |-> r] : r \in JudgeFieldResponses }
               \cup { [fn |-> "recover", text |-> t] : t \in TextsOf(MaxSegments) }
  /\ fn_out = NoCall

\* run_judge on what the model backend answered.
RunJudgeCall ==
  /\ calls = 0
  /\ fn_in.fn = "run_judge"
  /\ calls' = 1
  /\ fn_out' = RunJudgeFields(judge_enabled, fn_in.resp)
  /\ UNCHANGED <<judge_enabled, persona, dbVars, turnVars, writerVars, seqVars, pipe_in, fn_in,
                 alert_terminal>>

\* One response text handed to each of the three call sites: run_judge
\* (gate enabled), extract_mx1 and extract_alerts.
RecoverCall ==
  /\ calls = 0
  /\ fn_in.fn = "recover"
  /\ calls' = 1
  /\ fn_out' = [judge |-> JudgeParse(fn_in.text),
                mx |-> ExtractJsonObject(fn_in.text),
                alerts |-> ExtractJsonFromResponse(fn_in.text),
                res |-> RunJudge(TRUE, JudgeRespOfText(fn_in.text)).res]
  /\ UNCHANGED <<judge_enabled, persona, dbVars, turnVars, writerVars, seqVars, pipe_in, fn_in,
                 alert_terminal>>

NextJudge ==
  \/ RunJudgeCall
  \/ RecoverCall

SpecJudge == InitJudge /\ [][NextJudge]_vars

(* ------------------------------------------------------------------ *)
(* ToolsRegistry: tools/registry.py                                    *)
(* ------------------------------------------------------------------ *)
NoTool == [id |-> None, name |-> None]

\* Plugins that can be registered: AlertsTool (id "alerts", name "Alerts",
\* alerts/tool.py lines 15-16) and others, some sharing a display name, one
\* named as another's id.
ToolPlugins == [id : {"alerts", "notes", "tasks"}, name : {"Alerts", "Notes", "alerts"}]

\* The dict _tools, in insertion order: a sequence of key and value.
DictKeys(d) == {d[i].key : i \in DOMAIN d}

\* d[key] = value: a key the dict holds keeps its position.
DictSet(d, key, value) ==
  IF key \in DictKeys(d)
  THEN [i \in DOMAIN d |-> IF d[i].key = key THEN [key |-> key, value |-> value] ELSE d[i]]
  ELSE Append(d, [key |-> key, value |-> value])

\* register, line 22: the key is the tool's name.
Register(tools, tool) == DictSet(tools, tool.name, tool)

\* get, line 25: None for a key the dict does not hold.
RegistryGet(tools, name) ==
  IF name \in DictKeys(tools)
  THEN (CHOOSE e \in {tools[i] : i \in DOMAIN tools} : e.key = name).value
  ELSE NoTool

\* list_tools, line 28.
ListTools(tools) == [i \in DOMAIN tools |-> tools[i].value]

InitRegistry ==
  /\ judge_enabled = TRUE
  /\ persona = Persona(TRUE)
  /\ messages = <<>>
  /\ tool_settings = {}
  /\ session_summaries = {}
  /\ InitRest
  /\ pipe_in = NoPipeIn
  /\ alert_terminal = <<>>
  /\ calls = 0
  /\ fn_in = [fn |-> "register", registered |-> <<>>]
  /\ fn_out = [fn |-> "register", tools |-> <<>>]

\* registry.register(tool), with a tool whose id no registered tool has.
RegisterCall ==
  /\ calls < MaxRegister
  /\ \E tool \in ToolPlugins :
       /\ \A i \in DOMAIN fn_in.registered : fn_in.registered[i].id # tool.id
       /\ fn_in' = [fn_in EXCEPT !.registered = Append(@, tool)]
       /\ fn_out' = [fn_out EXCEPT !.tools = Register(@, tool)]
  /\ calls' = calls + 1
  /\ UNCHANGED <<judge_enabled, persona, dbVars, turnVars, writerVars, seqVars, pipe_in,
                 alert_terminal>>

NextRegistry == RegisterCall

SpecRegistry == InitRegistry /\ [][NextRegistry]_vars

(* ------------------------------------------------------------------ *)
(* Two pipeline runs of one session at the summary step, interleaved   *)
(* ------------------------------------------------------------------ *)
\* INSERT INTO session_summaries on a table with no key: a second row.
InsertSummaryRowNoKey(rows, session_id, summary, open_loops) ==
  [raised |-> FALSE,
   rows |-> rows \cup {[session_id |-> session_id, summary |-> summary,
                        open_loops |-> open_loops]}]

\* db.py lines 319-325 on the table of lines 71-77: session_id is the PRIMARY
\* KEY, so the INSERT raises sqlite3.IntegrityError where the session has a row.
InsertSummaryRow(rows, session_id, summary, open_loops) ==
  IF \E r \in rows : r.session_id = session_id
  THEN [raised |-> TRUE, rows |-> rows]
  ELSE [raised |-> FALSE,
        rows |-> rows \cup {[session_id |-> session_id, summary |-> summary,
                             open_loops |-> open_loops]}]

\* db.py lines 310-317: UPDATE ... WHERE session_id = ?.
UpdateSummaryRow(rows, session_id, summary, open_loops) ==
  {IF r.session_id = session_id
   THEN [r EXCEPT !.summary = summary, !.open_loops = open_loops] ELSE r : r \in rows}

\* db.py lines 309-327 with the row its SELECT found.
WriteSummaryWith(rows, existing, session_id, summary, open_loops) ==
  IF existing
  THEN [raised |-> FALSE, rows |-> UpdateSummaryRow(rows, session_id, summary, open_loops)]
  ELSE InsertSummaryRow(rows, session_id, summary, open_loops)

\* The summary each of the two runs got from the model.
RunSummary(p) == ModelSummary(<<"s", IF p = 1 THEN "1" ELSE "2">>)

RunDebug(p) == [NoDebug EXCEPT !.msg_count = SUMMARY_CADENCE, !.should_update_summary = TRUE]

InitSummaryRace ==
  /\ judge_enabled = TRUE
  /\ persona = Persona(TRUE)
  /\ messages = History(3)
  /\ tool_settings = {}
  /\ session_summaries \in
       { {}, {[session_id |-> S1, summary |-> ModelSummary(<<"s", "0">>),
               open_loops |-> <<>>]} }
  /\ InitRest
  /\ pipe_in = NoPipeIn
  /\ alert_terminal = <<>>
  /\ calls = 0
  /\ fn_in = [p \in Writers |-> [summary |-> RunSummary(p), open_loops |-> <<>>]]
  /\ fn_out = [p \in Writers |->
                 [runs |-> 0, returned |-> FALSE, wrote |-> <<>>, debug |-> RunDebug(p)]]

\* A run reaches pipeline.py line 112 and enters db.py lines 300-307: the
\* SELECT of the call.
SummarySelect(p) ==
  /\ w_pc[p] = "idle"
  /\ fn_out[p].runs < MaxRaceRuns
  /\ fn_out' = [fn_out EXCEPT ![p] = [runs |-> @.runs + 1, returned |-> FALSE,
                                       wrote |-> @.wrote, debug |-> RunDebug(p)]]
  /\ w_existing' = [w_existing EXCEPT ![p] = \E r \in session_summaries : r.session_id = S1]
  /\ w_pc' = [w_pc EXCEPT ![p] = "write"]
  /\ UNCHANGED <<judge_enabled, persona, pipe_in, fn_in, alert_terminal, calls, dbVars,
                 turnVars, w_args, seqVars>>

\* db.py lines 309-328 and pipeline.py lines 117-118: the write of the call;
\* the record is returned (line 163), or the exception reaches line 140.
SummaryWrite(p) ==
  /\ w_pc[p] = "write"
  /\ LET w == WriteSummaryWith(session_summaries, w_existing[p], S1, fn_in[p].summary,
                               fn_in[p].open_loops)
     IN  /\ session_summaries' = w.rows
         /\ w_pc' = [w_pc EXCEPT ![p] = IF w.raised THEN "except" ELSE "idle"]
         /\ fn_out' =
              [fn_out EXCEPT
                 ![p] = IF w.raised
                        THEN [@ EXCEPT !.debug.errors = Append(@, "pipeline_error")]
                        ELSE [@ EXCEPT !.returned = TRUE,
                                       !.wrote = Append(@, fn_in[p].summary),
                                       !.debug.summary_updated = TRUE]]
  /\ UNCHANGED <<judge_enabled, persona, pipe_in, fn_in, alert_terminal, calls, messages,
                 memory_items, alerts, tool_settings, next_id, turnVars, w_args,
                 w_existing, seqVars>>

\* pipeline.py lines 145-149: the count is read again (another request may
\* have added a message since); on cadence the emergency call is entered
\* and its SELECT is run.
EmergencySelect(p) ==
  /\ w_pc[p] = "except"
  /\ \E on_cadence \in BOOLEAN :
       IF on_cadence
       THEN /\ w_existing' =
                 [w_existing EXCEPT ![p] = \E r \in session_summaries : r.session_id = S1]
            /\ w_pc' = [w_pc EXCEPT ![p] = "emergency_write"]
            /\ UNCHANGED fn_out
       ELSE /\ w_pc' = [w_pc EXCEPT ![p] = "idle"]
            /\ fn_out' = [fn_out EXCEPT ![p].returned = TRUE]
            /\ UNCHANGED w_existing
  /\ UNCHANGED <<judge_enabled, persona, pipe_in, fn_in, alert_terminal, calls, dbVars,
                 turnVars, w_args, seqVars>>

\* pipeline.py lines 149-163: the write of the emergency call; what it raises
\* is collected at line 160, and the record is returned.
EmergencyWrite(p) ==
  /\ w_pc[p] = "emergency_write"
  /\ LET w == WriteSummaryWith(session_summaries, w_existing[p], S1,
                               EmergencySummary(SUMMARY_CADENCE), <<>>)
     IN  /\ session_summaries' = w.rows
         /\ fn_out' =
              [fn_out EXCEPT
                 ![p] = IF w.raised
                        THEN [@ EXCEPT !.returned = TRUE,
                                       !.debug.errors = Append(@, "emergency_summary_failed")]
                        ELSE [@ EXCEPT !.returned = TRUE,
                                       !.wrote = Append(@, EmergencySummary(SUMMARY_CADENCE)),
                                       !.debug.summary_updated = TRUE,
                                       !.debug.errors = Append(@, "emergency_summary")]]
  /\ w_pc' = [w_pc EXCEPT ![p] = "idle"]
  /\ UNCHANGED <<judge_enabled, persona, pipe_in, fn_in, alert_terminal, calls, messages,
                 memory_items, alerts, tool_settings, next_id, turnVars, w_args,
                 w_existing, seqVars>>

NextSummaryRace ==
  \E p \in Writers :
    \/ SummarySelect(p)
    \/ SummaryWrite(p)
    \/ EmergencySelect(p)
    \/ EmergencyWrite(p)

SpecSummaryRace == InitSummaryRace /\ [][NextSummaryRace]_vars

(* ------------------------------------------------------------------ *)
(* Properties                                                          *)
(* ------------------------------------------------------------------ *)
Last(seq) == seq[Len(seq)]

LastVerdict == IF verdicts = <<>> THEN None ELSE Last(verdicts)

\* The loop of the turn has been left with a verdict.
AfterLoop == pc \in {"resolve", "pipeline", "tools", "return", "done"}

\* The assistant message of the turn has been persisted.
AfterPersist == pc \in {"pipeline", "tools", "return", "done"}

SameTriple(r, scope, session_id, key) ==
  r.scope = scope /\ r.session_id = session_id /\ r.key = key

\* C1: in one turn at most 3 drafts are generated whatever the judge answers,
\* no attempt's draft is judged twice, and once the third attempt has its verdict
\* the turn is out of the loop and persists a final reply.
C1_AtMostThreeAttempts ==
  /\ gen_calls <= 3
  /\ attempt < 3
  /\ judge_calls <= gen_calls
  /\ Len(judged) = judge_calls
  /\ \A i, j \in DOMAIN judged : i # j => judged[i] # judged[j]
  /\ Len(verdicts) = 3 => /\ AfterLoop
                          /\ gen_calls = 3
                          /\ AfterPersist =>
                               Last(messages) = [role |-> "assistant", content |-> final_text]

\* The judge asked for a rewrite, with feedback, on each of the three attempts,
\* and the turn was completed.
C1_Witness ==
  /\ pc = "done"
  /\ verdicts = <<"REWRITE", "REWRITE", "REWRITE">>
  /\ judge_result.feedback = "fb"
  /\ gen_calls = 3

\* C2: a BLOCK verdict is the last verdict of its turn: no draft is generated and
\* no judge call is made after it, and the final reply is the judge's replacement
\* text if there is one and the fixed refusal otherwise, never a draft.
C2_BlockEndsLoop ==
  \A k \in DOMAIN verdicts :
    verdicts[k] = "BLOCK" =>
      /\ k = Len(verdicts)
      /\ gen_calls = k /\ judge_calls = k
      /\ AfterLoop
      /\ final_text = IF Truthy(judge_result.rewritten_response)
                      THEN judge_result.rewritten_response ELSE Refusal
      /\ final_src \in {"judge", "refusal"}
      /\ AfterPersist => Last(messages) = [role |-> "assistant", content |-> final_text]
      /\ result.status = "ok" => result.assistant = final_text /\ result.verdict = "BLOCK"

\* A block on the third attempt, without replacement text, in a completed turn.
C2_Witness ==
  /\ pc = "done"
  /\ verdicts = <<"REWRITE", "REWRITE", "BLOCK">>
  /\ ~Truthy(judge_result.rewritten_response)
  /\ result.assistant = Refusal

\* C3: no failure of the judge gate aborts the turn: whatever run_judge meets
\* (prompt building, transport, timeout, no JSON, malformed JSON, JSON that is
\* no object, unknown verdict), it returns PASS and chat_send_api goes on.
C3_JudgeFailureIsPass ==
  (last_resp.kind \in JudgeFailureKinds \/ last_resp.verdict = "MAYBE") =>
    /\ pc # "crashed"
    /\ result.status # "500"
    /\ Len(verdicts) = judge_calls
    /\ LastVerdict = "PASS"
    /\ AfterLoop

\* C4: with the gate disabled run_judge answers PASS without calling the model
\* backend, so a turn makes one generation call and its draft is the final reply.
C4_DisabledGate ==
  ~judge_enabled =>
    /\ judge_backend_calls = 0
    /\ \A i \in DOMAIN verdicts : verdicts[i] = "PASS"
    /\ gen_calls <= 1
    /\ pc # "crashed"
    /\ AfterLoop => /\ gen_calls = 1 /\ judge_calls = 1
                    /\ final_text = assistant_draft
                    /\ final_src = "draft"
    /\ AfterPersist => Last(messages) = [role |-> "assistant", content |-> assistant_draft]
    /\ result.status = "ok" => result.assistant = assistant_draft /\ result.verdict = "PASS"

\* A completed turn with the gate disabled.
C4_Witness ==
  /\ ~judge_enabled
  /\ pc = "done"
  /\ judge_calls = 1
  /\ result.status = "ok"

\* The judge answered REWRITE with neither feedback nor rewritten text.
EmptyRewrite(resp) ==
  /\ resp.kind = "object"
  /\ resp.verdict = "REWRITE"
  /\ resp.feedback \in {Absent, ""}
  /\ resp.rewritten \in {Absent, ""}

\* C5: a REWRITE answer with empty or absent feedback and rewritten text acts as
\* PASS: run_judge reports PASS, the loop ends on that attempt, the draft is the
\* final reply unchanged, and the caller is given PASS.
C5_EmptyRewriteIsPass ==
  (judge_enabled /\ EmptyRewrite(last_resp)) =>
    /\ LastVerdict = "PASS"
    /\ judge_result.verdict = "PASS"
    /\ AfterLoop
    /\ gen_calls = judge_calls /\ Last(judged) = attempt
    /\ final_text = assistant_draft
    /\ final_src = "draft"
    /\ verdict = "PASS"
    /\ AfterPersist => Last(messages) = [role |-> "assistant", content |-> assistant_draft]
    /\ result.status = "ok" => result.assistant = assistant_draft /\ result.verdict = "PASS"

\* An empty REWRITE on the second attempt of a completed turn.
C5_Witness ==
  /\ judge_enabled
  /\ EmptyRewrite(last_resp)
  /\ pc = "done"
  /\ judge_calls = 2
  /\ result.verdict = "PASS"

\* C6 as claimed: the verdict of a turn result is PASS or BLOCK, never REWRITE.
C6_NeverRewrite ==
  result.status = "ok" => result.verdict \in {"PASS", "BLOCK"}

\* C6 as amended: the verdict of a turn result is REWRITE only with an empty
\* final reply; a loop that ends on REWRITE with a non-empty final reply gives
\* PASS, and the other verdicts are handed on as they are.
C6_RewriteOnlyWithEmptyReply ==
  result.status = "ok" =>
    /\ result.verdict \in {"PASS", "BLOCK", "REWRITE"}
    /\ result.verdict = "REWRITE" => result.assistant = "" /\ LastVerdict = "REWRITE"
    /\ (LastVerdict = "REWRITE" /\ result.assistant # "") => result.verdict = "PASS"
    /\ LastVerdict # "REWRITE" => result.verdict = Last(verdicts)

\* A loop that ended on REWRITE with a reply, reported as PASS.
C6_Witness ==
  /\ result.status = "ok"
  /\ LastVerdict = "REWRITE"
  /\ result.assistant # ""
  /\ result.verdict = "PASS"

\* C7: a failed generation call, on whichever attempt, ends the turn with the
\* upstream error: no assistant message, no pipeline run, no tool run, no result.
C7_GenerationFailureEndsTurn ==
  result.status = "502" =>
    /\ pc = "failed"
    /\ pipeline_runs = 0
    /\ tool_runs = 0
    /\ result.assistant = None /\ result.verdict = None
    /\ Len(messages) = Len(turn_pre.messages) + 1
    /\ Last(messages).role = "user"
    /\ pipeline_debug = NoDebug /\ tool_events = <<>>

\* The third generation call of a turn failed.
C7_Witness ==
  /\ pc = "failed"
  /\ result.status = "502"
  /\ gen_calls = 3
  /\ judge_calls = 2

RECURSIVE Alternates(_, _)
Alternates(msgs, role) ==
  \/ msgs = <<>>
  \/ /\ Head(msgs).role = role
     /\ Alternates(Tail(msgs), IF role = "user" THEN "assistant" ELSE "user")

\* C8 as claimed: a turn that ends in the upstream error leaves Messages,
\* MemoryItems, SessionSummary and Alerts as they were, and between turns the
\* messages alternate user, assistant and their count is even.
C8_FailedTurnLeavesNothing ==
  /\ pc = "failed" => Persisted = turn_pre
  /\ pc \in {"idle", "done", "failed"} =>
       Alternates(messages, "user") /\ Len(messages) % 2 = 0

\* C8 as amended: a turn that ends in the upstream error leaves MemoryItems,
\* SessionSummary and Alerts as they were and adds one message, the user message.
C8_FailedTurnKeepsUserMessage ==
  pc = "failed" =>
    /\ memory_items = turn_pre.memory_items
    /\ session_summaries = turn_pre.session_summaries
    /\ alerts = turn_pre.alerts
    /\ messages = Append(turn_pre.messages, [role |-> "user", content |-> UserMessage])

\* A turn failed in a session that holds a memory item, a summary and an alert.
C8_Witness ==
  /\ pc = "failed"
  /\ memory_items # {}
  /\ session_summaries # {}
  /\ alerts # {}

\* C9: with the calls made one after the other there is at most one row per
\* (scope, session_id, key), a null session_id being one more value; after an
\* upsert the triple has one row, with the value given, and the rows of the other
\* triples are what they were.
C9_OneRowPerTriple ==
  /\ \A r1, r2 \in memory_items :
       SameTriple(r1, r2.scope, r2.session_id, r2.key) => r1 = r2
  /\ last_upsert.op = "upsert" =>
       LET a == last_upsert.args
       IN  /\ Cardinality({r \in memory_items :
                             SameTriple(r, a.scope, a.session_id, a.key)}) = 1
           /\ \A r \in memory_items :
                SameTriple(r, a.scope, a.session_id, a.key) => r.value = a.value
           /\ {r \in memory_items : ~SameTriple(r, a.scope, a.session_id, a.key)}
              = {r \in last_upsert.pre : ~SameTriple(r, a.scope, a.session_id, a.key)}

\* A global item without session was stored again with another value, beside a
\* row of another triple.
C9_Witness ==
  /\ last_upsert.op = "upsert"
  /\ last_upsert.args.session_id = None
  /\ \E r \in last_upsert.pre :
       /\ SameTriple(r, last_upsert.args.scope, None, last_upsert.args.key)
       /\ r.value # last_upsert.args.value
  /\ Cardinality(memory_items) >= 2

\* C10: whatever the interleaving of two upsert_memory_item calls for the same
\* (scope, session_id, key), the triple never has two rows.
C10_OneRowUnderInterleaving ==
  \A r1, r2 \in memory_items :
    SameTriple(r1, r2.scope, r2.session_id, r2.key) => r1 = r2

(* ------------------------------------------------------------------ *)
(* Properties of the post-chat pipeline                                *)
(* ------------------------------------------------------------------ *)
InSeq(x, seq) == \E i \in DOMAIN seq : seq[i] = x

\* The pipeline of the turn has run and nothing has been stored since.
JustRan == pc \in {"tools", "return", "done"} /\ pipe_in.out.kind # "none"

\* The count of the run is a multiple of the cadence.
RunOnCadence == pipe_in.msg_count % SUMMARY_CADENCE = 0

SummaryRows(sid) == {r \in session_summaries : r.session_id = sid}

\* The accepted items of the run, computed from what the model returned.
RunItems ==
  IF pipe_in.out.kind = "ok" THEN ExtractMx1(pipe_in.out.data).items ELSE <<>>

\* extract_mx1 raised in the run.
ExtractionRaised ==
  /\ pipe_in.out.kind = "raise"
  /\ pipe_in.out.fail_at \notin {"get_messages", "count_messages", "get_session_summary"}

\* An upsert_memory_item call of the run raised.
UpsertRaised ==
  /\ pipe_in.out.kind = "ok"
  /\ pipe_in.out.fail_at = "upsert_memory_item"
  /\ pipe_in.out.fail_item <= Len(RunItems)

\* Some call inside the try block of the run raised.
RunRaised ==
  \/ pipe_in.out.fail_at \in {"get_messages", "count_messages", "get_session_summary"}
  \/ pipe_in.out.kind = "raise"
  \/ UpsertRaised
  \/ pipe_in.out.fail_at = "upsert_session_summary" /\ RunOnCadence

\* C11: a pipeline run writes SessionSummary only when the persisted message
\* count is a multiple of the cadence, and then it writes it once, whatever the
\* model returned and whether extraction failed or not (the write is missed only
\* when the storage call of the except branch raises too); off cadence the
\* stored summary is what it was, patch or no patch.
C11_SummaryIffCadence ==
  JustRan =>
    /\ pipe_in.msg_count = Len(messages)
    /\ pipe_in.summary_writes \in {0, 1}
    /\ pipe_in.summary_writes = 1 => RunOnCadence
    /\ ~RunOnCadence => session_summaries = pipe_in.session_summaries
    /\ (RunOnCadence /\ pipe_in.out.emergency = "ok") =>
         /\ pipe_in.summary_writes = 1
         /\ Cardinality(SummaryRows(S1)) = 1
    /\ pipeline_debug.summary_updated = (pipe_in.summary_writes = 1)

\* An off-cadence run at count 8 in which the model gave a summary, in a session
\* whose summary was written at count 6.
C11_Witness ==
  /\ JustRan
  /\ pipe_in.msg_count = 8
  /\ pipe_in.out = Outcome("ok", OneItemData)
  /\ pipe_in.session_summaries # {}
  /\ pipeline_debug.memory_items_upserted = 1

\* The run recovered no summary text: no object, no key, no string, or blanks.
NoSummaryText ==
  /\ pipe_in.out.kind \in {"ok", "no_json"}
  /\ pipe_in.out.fail_at = "none"
  /\ \/ pipe_in.out.kind = "no_json"
     \/ pipe_in.out.data.summary.tag # "str"
     \/ \A i \in DOMAIN pipe_in.out.data.summary.val :
          pipe_in.out.data.summary.val[i] \in Whitespace

HasContent(m) == m.content # ""

\* The first three of the last four messages that have content.
NonBlankOfLastFour ==
  LET sel == SelectSeq(SubSeq(messages, Len(messages) - 3, Len(messages)), HasContent)
  IN  SubSeq(sel, 1, IF Len(sel) < 3 THEN Len(sel) ELSE 3)

\* C12: an on-cadence run that recovers no summary text stores the fallback
\* text, made of the message count and the last messages; the stored text is
\* not empty, and the record says summary_updated and that a fallback was used.
C12_FallbackSummary ==
  (JustRan /\ RunOnCadence /\ NoSummaryText) =>
    /\ \A r \in SummaryRows(S1) :
         /\ r.summary.kind = "fallback"
         /\ r.summary.count = Len(messages)
         /\ r.summary.snippets = NonBlankOfLastFour
    /\ SummaryRows(S1) # {}
    /\ pipeline_debug.summary_updated
    /\ pipeline_debug.errors = <<"empty_summary_fallback">>

\* A blank summary at count 12.
C12_Witness ==
  /\ JustRan
  /\ pipe_in.msg_count = 12
  /\ pipe_in.out = Outcome("ok", LowItemData)
  /\ pipeline_debug.summary_updated

\* C13: whatever raises inside a pipeline run (loading the messages, counting
\* them, the model call and the parsing of its answer, a memory upsert, the
\* summary write, and then the emergency write too), the run returns its record
\* with the error collected, and the turn runs the tools and returns its result.
C13_PipelineNeverRaises ==
  JustRan =>
    /\ pipeline_runs = 1
    /\ RunRaised <=> InSeq("pipeline_error", pipeline_debug.errors)
    /\ (RunRaised /\ (pipe_in.out.emergency = "count_raises"
                      \/ (pipe_in.out.emergency = "write_raises" /\ RunOnCadence)))
         => InSeq("emergency_summary_failed", pipeline_debug.errors)
    /\ pc \in {"return", "done"} => tool_runs = 1
    /\ pc = "done" => result.status = "ok" /\ result.assistant = final_text

\* The summary write and the emergency write both raised, and the turn was
\* completed.
C13_Witness ==
  /\ pc = "done"
  /\ pipe_in.out.fail_at = "upsert_session_summary"
  /\ pipe_in.out.emergency = "write_raises"
  /\ RunOnCadence
  /\ result.status = "ok"

\* C14: when extract_mx1 or an upsert_memory_item call raises (and the storage
\* calls of the except branch work), an on-cadence run leaves the emergency
\* summary with no open loops as the session's summary, an off-cadence run leaves
\* the summary as it was, and the items upserted before the failure are stored.
C14_EmergencySummary ==
  (JustRan /\ (ExtractionRaised \/ UpsertRaised) /\ pipe_in.out.emergency = "ok") =>
    /\ RunOnCadence =>
         SummaryRows(S1) =
           {[session_id |-> S1,
             summary |-> [kind |-> "emergency", text |-> <<>>,
                          count |-> pipe_in.msg_count, snippets |-> <<>>],
             open_loops |-> <<>>]}
    /\ ~RunOnCadence => session_summaries = pipe_in.session_summaries
    /\ memory_items =
         UpsertItems(pipe_in.memory_items, pipe_in.next_id,
                     IF UpsertRaised THEN SubSeq(RunItems, 1, pipe_in.out.fail_item - 1)
                     ELSE <<>>,
                     S1).rows

\* The second upsert of an on-cadence run raised: the first item is stored and
\* the summary written at count 6 is replaced.
C14_Witness ==
  /\ JustRan
  /\ UpsertRaised
  /\ pipe_in.out.fail_item = 2
  /\ pipe_in.msg_count = 12
  /\ pipe_in.session_summaries # {}
  /\ \E r \in memory_items : r.key = K1 /\ r.scope = "global"
  /\ \A r \in SummaryRows(S1) : r.summary.kind = "emergency"

\* C15: every multiple of the cadence that the message count of the session
\* passes in a completed turn is the count of that turn's pipeline run, and the
\* run writes the summary at it; turns that failed in generation do not change
\* that.
C15_EveryBoundaryObserved ==
  (pc = "done" /\ result.status = "ok") =>
    \A m \in (Len(turn_pre.messages) + 1)..Len(messages) :
      m % SUMMARY_CADENCE = 0 =>
        pipeline_debug.msg_count = m /\ pipeline_debug.summary_updated

(* ------------------------------------------------------------------ *)
(* Properties of validate_mx1_output                                   *)
(* ------------------------------------------------------------------ *)
\* A number clamped into [0, 1], in hundredths.
Clamped(n) == IF n < 0 THEN 0 ELSE IF n > 100 THEN 100 ELSE n

\* The candidate passes every check but the one on its confidence, which is a
\* number.
OtherwiseValid(it) ==
  /\ it.scope \in {"global", "session"}
  /\ it.key = K1
  /\ it.value = V1
  /\ it.confidence.tag = "num"

\* C16: an otherwise valid candidate is kept exactly when its clamped confidence
\* is at least the threshold, and it is stored with the clamped confidence: at
\* threshold 0.80 a candidate at 0.79 is dropped, one at 0.80 is kept, and one
\* at 1.50 is stored with 1.
C16_ThresholdInclusive ==
  (calls = 1 /\ fn_in.fn = "validate_mx1_output" /\ OtherwiseValid(fn_in.item)) =>
    LET n == fn_in.item.confidence.num
    IN  /\ Len(fn_out.items) = (IF Clamped(n) >= fn_in.threshold THEN 1 ELSE 0)
        /\ \A i \in DOMAIN fn_out.items :
             /\ fn_out.items[i].confidence = Clamped(n)
             /\ fn_out.items[i].key = fn_in.item.key
             /\ fn_out.items[i].scope = fn_in.item.scope
        /\ (fn_in.threshold = 80 /\ n = 79) => fn_out.items = <<>>
        /\ (fn_in.threshold = 80 /\ n = 80) => Len(fn_out.items) = 1
        /\ n = 150 => fn_out.items[1].confidence = 100

\* A candidate at 0.80 under threshold 0.80 was kept.
C16_Witness ==
  /\ calls = 1
  /\ fn_in.fn = "validate_mx1_output"
  /\ OtherwiseValid(fn_in.item)
  /\ fn_in.threshold = 80
  /\ fn_in.item.confidence = Num(80)
  /\ Len(fn_out.items) = 1

(* ------------------------------------------------------------------ *)
(* Properties of run_tools                                             *)
(* ------------------------------------------------------------------ *)
RunToolsDone == calls = 1 /\ fn_in.fn = "run_tools"

\* How many times x occurs in seq.
Occurrences(x, seq) == Cardinality({k \in DOMAIN seq : seq[k] = x})

\* The events of the result that carry the tool id.
EventsOf(id) == {k \in DOMAIN fn_out.events : fn_out.events[k].tool_id = id}

SwitchedOff(id) == id \in DOMAIN fn_in.enabled_map /\ ~fn_in.enabled_map[id]

\* C17: the run of a registered tool whose enabled state is false is not invoked
\* and the result holds one event for it, a skipped event; the run of a tool
\* whose state is true or that the map does not hold is invoked once.
C17_DisabledToolSkipped ==
  RunToolsDone =>
    \A i \in DOMAIN fn_in.tools :
      LET id == fn_in.tools[i].id
      IN  IF SwitchedOff(id)
          THEN /\ Occurrences(id, fn_out.invoked) = 0
               /\ Cardinality(EventsOf(id)) = 1
               /\ \A k \in EventsOf(id) : fn_out.events[k].event = "skipped"
          ELSE Occurrences(id, fn_out.invoked) = 1

\* Three tools: the second is switched off, the third is not in the map.
C17_Witness ==
  /\ RunToolsDone
  /\ Len(fn_in.tools) = 3
  /\ DOMAIN fn_in.enabled_map = {"alerts", "notes"}
  /\ fn_in.enabled_map["alerts"] /\ ~fn_in.enabled_map["notes"]
  /\ fn_out.invoked = <<"alerts", "tasks">>

\* The registry with tool number i left out.
Without(tools, i) == SubSeq(tools, 1, i - 1) \o SubSeq(tools, i + 1, Len(tools))

\* The events that do not carry the tool id and are not the tool's own.
RECURSIVE EventsButOf(_, _)
EventsButOf(events, id) ==
  IF events = <<>> THEN <<>>
  ELSE IF Head(events).tool_id = id \/ Head(events).items = <<id>>
       THEN EventsButOf(Tail(events), id)
       ELSE <<Head(events)>> \o EventsButOf(Tail(events), id)

\* C18: when the run of a tool raises, the result holds one error event for it,
\* with its id and the error message, and the events of the other tools are
\* those of the same call without the failing tool, in the same order.
C18_ToolErrorIsolated ==
  RunToolsDone =>
    \A i \in DOMAIN fn_in.tools :
      LET t == fn_in.tools[i]
      IN  (t.does = "raise" /\ ~SwitchedOff(t.id)) =>
            /\ Cardinality(EventsOf(t.id)) = 1
            /\ \A k \in EventsOf(t.id) :
                 /\ fn_out.events[k].event = "error"
                 /\ fn_out.events[k].message = <<"failed", t.id>>
            /\ EventsButOf(fn_out.events, t.id)
                 = RunToolsOn(Without(fn_in.tools, i), fn_in.enabled_map).events
            /\ \A j \in DOMAIN fn_in.tools :
                 ~SwitchedOff(fn_in.tools[j].id) =>
                   Occurrences(fn_in.tools[j].id, fn_out.invoked) = 1

\* The second of three tools raised; the first and the third returned events.
C18_Witness ==
  /\ RunToolsDone
  /\ Len(fn_in.tools) = 3
  /\ fn_in.enabled_map = <<>>
  /\ fn_in.tools[1].does = "events"
  /\ fn_in.tools[2].does = "raise"
  /\ fn_in.tools[3].does = "events"
  /\ Len(fn_out.events) = 3

(* ------------------------------------------------------------------ *)
(* Properties of the tool settings and of the alerts                   *)
(* ------------------------------------------------------------------ *)
GetEffectiveDone == fn_in.fn = "get_effective_tool_enabled_map"

\* The session-scoped rows of (sid, id) and the global-scoped rows of id in
\* the settings the call read.
SessionOverrides(sid, id) ==
  {r \in fn_in.settings : r.scope = "session" /\ r.session_id = sid /\ r.tool_id = id}

GlobalOverrides(id) ==
  {r \in fn_in.settings : r.scope = "global" /\ r.tool_id = id}

\* C19: the map holds exactly the requested tool ids, and for each of them the
\* value of the session's override if there is one, else the value of a
\* global-scoped override if there is one, else true; rows of other sessions
\* and of other tools do not count.
C19_EffectiveEnabled ==
  GetEffectiveDone =>
    /\ DOMAIN fn_out = {fn_in.tool_ids[i] : i \in DOMAIN fn_in.tool_ids}
    /\ \A id \in DOMAIN fn_out :
         LET o == SessionOverrides(fn_in.session_id, id)
             g == GlobalOverrides(id)
         IN  /\ Cardinality(o) <= 1
             /\ o # {} => \A r \in o : fn_out[id] = r.enabled
             /\ (o = {} /\ g # {}) => \E r \in g : fn_out[id] = r.enabled
             /\ (o = {} /\ g = {}) => fn_out[id]

\* The tool is switched off globally and in the other session and switched on
\* in the session asked for.
C19_Witness ==
  /\ GetEffectiveDone
  /\ fn_in.session_id = S1
  /\ fn_in.tool_ids = <<"alerts", "notes">>
  /\ \E r \in GlobalOverrides("alerts") : ~r.enabled
  /\ \E r \in SessionOverrides(S2, "alerts") : ~r.enabled
  /\ \E r \in SessionOverrides(S1, "alerts") : r.enabled
  /\ fn_out["alerts"] /\ fn_out["notes"]

\* C20: every alert is created active, and an alert that was given the status
\* done or cancelled keeps that status under every later call.
C20_TerminalIsFinal ==
  \A r \in alerts :
    /\ r.status \in AlertStatuses
    /\ r.id \in DOMAIN alert_terminal => r.status = alert_terminal[r.id]

(* ------------------------------------------------------------------ *)
(* Properties of the tools step and of the alerts plugin               *)
(* ------------------------------------------------------------------ *)
ToolsStepDone == fn_in.fn = "tools_step"

\* C21: every event of the list the tools step hands to the turn result holds a
\* tool id, an event kind, a title or a message, and a data payload.
C21_EveryEventComplete ==
  ToolsStepDone =>
    \A k \in DOMAIN fn_out.events :
      LET e == fn_out.events[k]
      IN  /\ e.tool_id # Absent
          /\ e.event # Absent
          /\ (e.title # Absent \/ e.message # Absent)
          /\ e.data # Absent

(* ------------------------------------------------------------------ *)
(* Order of the steps of a turn                                        *)
(* ------------------------------------------------------------------ *)
\* The messages of the session with both messages of the turn persisted.
BothPersisted ==
  messages = turn_pre.messages
               \o <<[role |-> "user", content |-> UserMessage],
                    [role |-> "assistant", content |-> final_text]>>

\* C22: a generate or judge call is made only while the assistant message is
\* not persisted and neither the pipeline nor a tool has run; the pipeline runs
\* once, with the user message and the final reply persisted and before any
\* tool; a tool runs only after the pipeline has returned; the result is
\* returned after the tools.
C22_StepOrder ==
  [][ /\ (gen_calls' > gen_calls \/ judge_calls' > judge_calls) =>
           /\ messages = Append(turn_pre.messages,
                                [role |-> "user", content |-> UserMessage])
           /\ messages' = messages
           /\ pipeline_runs = 0 /\ tool_runs = 0
      /\ pipeline_runs' > pipeline_runs =>
           /\ pipeline_runs = 0 /\ pipeline_runs' = 1
           /\ tool_runs = 0 /\ tool_runs' = 0
           /\ BothPersisted /\ messages' = messages
           /\ gen_calls' = gen_calls /\ judge_calls' = judge_calls
      /\ tool_runs' > tool_runs =>
           /\ pipeline_runs = 1 /\ pipeline_runs' = 1
           /\ BothPersisted /\ messages' = messages
           /\ result.status = "none"
      /\ (result'.status = "ok" /\ result.status # "ok") =>
           /\ pipeline_runs = 1 /\ tool_runs = 1
           /\ BothPersisted /\ messages' = messages
           /\ gen_calls' = gen_calls /\ judge_calls' = judge_calls
           /\ result'.assistant = final_text
    ]_vars

\* A turn of three attempts in a session of four earlier messages was
\* completed: the pipeline and the alerts tool ran once each and an alert was
\* created.
C22_Witness ==
  /\ pc = "done"
  /\ result.status = "ok"
  /\ gen_calls = 3
  /\ pipeline_runs = 1
  /\ tool_runs = 1
  /\ Len(messages) = 6
  /\ alerts # {}

(* ------------------------------------------------------------------ *)
(* The REWRITE branch of the loop                                      *)
(* ------------------------------------------------------------------ *)
\* The last verdict of the judge is REWRITE, with feedback, on the first or
\* the second attempt.
RewriteWithRetry ==
  /\ judge_result.verdict = "REWRITE"
  /\ Truthy(judge_result.feedback)
  /\ Last(judged) < 2

\* The two entries put after the context of attempt number att.
RetryEntries(att) == SubSeq(current_history, Len(turn_pre.messages) + 2 * att - 1,
                            Len(turn_pre.messages) + 2 * att)

\* C23: after a REWRITE verdict with feedback on attempt 1 or 2 the turn is in
\* the next attempt, whose context ends with the rejected draft and the
\* instruction holding the feedback, and no final reply is set from the judge's
\* text; after any other REWRITE verdict the loop is left with no further
\* generation, and the final reply is the judge's rewritten text if it has one
\* and the draft of that attempt otherwise.
C23_RewriteBranch ==
  (judge_result.verdict = "REWRITE" /\ pc # "crashed") =>
    IF RewriteWithRetry
    THEN /\ pc \in {"generate", "judge", "failed"}
         /\ attempt = Last(judged) + 1
         /\ Len(current_history) = Len(turn_pre.messages) + 2 * attempt
         /\ RetryEntries(attempt)[2] =
              [role |-> "system",
               content |-> "Your previous response was rejected. Feedback: "
                             \o judge_result.feedback
                             \o ". Rewrite it following these instructions."]
         /\ RetryEntries(attempt)[1].role = "assistant"
         /\ pc = "generate" => RetryEntries(attempt)[1].content = assistant_draft
         /\ pc = "judge" => gen_calls = judge_calls + 1
         /\ final_text = ""
    ELSE /\ AfterLoop
         /\ gen_calls = judge_calls
         /\ attempt = Last(judged)
         /\ final_text = IF Truthy(judge_result.rewritten_response)
                         THEN judge_result.rewritten_response ELSE assistant_draft
         /\ AfterPersist => Last(messages) = [role |-> "assistant", content |-> final_text]
         /\ result.status = "ok" => result.assistant = final_text

\* Two rewrites with feedback were followed by new drafts, and the third
\* REWRITE, with feedback and rewritten text, ended the loop with the judge's
\* text.
C23_Witness ==
  /\ pc = "done"
  /\ verdicts = <<"REWRITE", "REWRITE", "REWRITE">>
  /\ judge_result.feedback = "fb"
  /\ judge_result.rewritten_response = "r1"
  /\ result.assistant = "r1"
  /\ Len(current_history) = Len(turn_pre.messages) + 4

(* ------------------------------------------------------------------ *)
(* The extraction context                                              *)
(* ------------------------------------------------------------------ *)
\* C24: the context a pipeline run hands to the extraction is the last 10
\* messages of the session in creation order (all of them when there are
\* fewer), and its last two entries are the user message and the reply of the
\* turn that was just completed.
C24_RecentIsLastTen ==
  JustRan =>
    /\ pipe_in.recent = LastN(messages, MX1_RECENT_MESSAGES)
    /\ SubSeq(pipe_in.recent, Len(pipe_in.recent) - 1, Len(pipe_in.recent))
         = <<[role |-> "user", content |-> UserMessage],
             [role |-> "assistant", content |-> final_text]>>

(* ------------------------------------------------------------------ *)
(* The cap on the candidates of a run                                  *)
(* ------------------------------------------------------------------ *)
\* The keys of the rows a run added or changed.
RunStoredKeys == {r.key : r \in memory_items \ pipe_in.memory_items}

\* The keys of the candidates among the first five that pass the threshold.
AcceptedOfFirstFive(items) ==
  {items[i].key : i \in {j \in 1..5 : items[j].confidence = Num(90)}}

ManyItemRun == JustRan /\ pipe_in.out \in ManyItemOutcomes

\* C25: a run stores at most 5 items whatever the length of the model's list:
\* the keys it stores are those of the accepted candidates among the first 5,
\* and the key of a candidate at position 6 or later is never stored, also when
\* candidates among the first 5 are dropped.
C25_AtMostFive ==
  ManyItemRun =>
    LET items == pipe_in.out.data.items
    IN  /\ Cardinality(memory_items \ pipe_in.memory_items) <= 5
        /\ pipeline_debug.memory_items_upserted <= 5
        /\ RunStoredKeys \subseteq AcceptedOfFirstFive(items)
        /\ AcceptedOfFirstFive(items) \subseteq {r.key : r \in memory_items}
        /\ \A i \in 6..Len(items) : \A r \in memory_items : r.key # items[i].key

\* Seven candidates, the second under the threshold: four rows are stored.
C25_Witness ==
  /\ ManyItemRun
  /\ Len(pipe_in.out.data.items) = 7
  /\ pipe_in.out.data.items[2].confidence = Num(10)
  /\ pipe_in.out.data.items[1].confidence = Num(90)
  /\ Cardinality(memory_items) = 4

(* ------------------------------------------------------------------ *)
(* What validate_mx1_output lets through to the store                  *)
(* ------------------------------------------------------------------ *)
\* C26: every item validate_mx1_output hands to the pipeline for storing has
\* an allowed scope, a key of 1 to 64 characters of [a-z0-9_], a value of
\* length 1 to 400 as it is stored, and a confidence from the threshold to 1.
C26_StoredItemsValid ==
  (calls = 1 /\ fn_in.fn = "validate_mx1_output") =>
    \A i \in DOMAIN fn_out.items :
      LET it == fn_out.items[i]
      IN  /\ it.scope \in {"global", "session"}
          /\ 1 <= Len(it.key) /\ Len(it.key) <= 64
          /\ \A j \in DOMAIN it.key : it.key[j] \in KeyChars
          /\ 1 <= Len(it.value) /\ Len(it.value) <= 400
          /\ fn_in.threshold <= it.confidence /\ it.confidence <= 100

(* ------------------------------------------------------------------ *)
(* Scope and session of the stored memory items                        *)
(* ------------------------------------------------------------------ *)
\* C27: a stored memory item has a session_id exactly when its scope is
\* session; a global row has none, whatever upserts the pipeline and POST
\* /memory made.
C27_SessionIdIffSession ==
  \A r \in memory_items : (r.session_id # None) <=> (r.scope = "session")

(* ------------------------------------------------------------------ *)
(* Properties of a run of the alerts plugin                            *)
(* ------------------------------------------------------------------ *)
\* The rows the step added to the alerts table.
NewAlerts == alerts \ fn_in.alerts

\* The alert_created events of the step's list.
CreatedEvents == {k \in DOMAIN fn_out.events : fn_out.events[k].type = "alert_created"}

\* The entries of an event's item list, as a set.
ItemsOf(k) == {fn_out.events[k].items[i] : i \in DOMAIN fn_out.events[k].items}

\* C28: a run of the alerts plugin adds at most 2 rows to the alerts table
\* whatever the length of the model's list; each row it adds is active and has
\* a title and a due timestamp; when it added rows its result is one
\* alert_created event whose items are those rows, one item per row, and when
\* it added none its result holds no such event.
C28_AtMostTwoAlerts ==
  ToolsStepDone =>
    /\ fn_in.alerts \subseteq alerts
    /\ Cardinality(NewAlerts) <= 2
    /\ \A r \in NewAlerts :
         /\ r.status = "active"
         /\ r.title # <<>> /\ r.due_at # <<>>
         /\ r.scope = "session" /\ r.session_id = S1
    /\ NewAlerts # {} =>
         /\ Cardinality(CreatedEvents) = 1
         /\ \A k \in CreatedEvents :
              /\ Len(fn_out.events[k].items) = Cardinality(NewAlerts)
              /\ {[id |-> it.alert_id, title |-> it.title, due_at |-> it.due_at] :
                    it \in ItemsOf(k)}
                   = {[id |-> r.id, title |-> r.title, due_at |-> r.due_at] :
                        r \in NewAlerts}
    /\ NewAlerts = {} => CreatedEvents = {}

\* The model listed three valid reminders and every create_alert worked: two
\* rows were added.
C28_Witness ==
  /\ ToolsStepDone
  /\ fn_in.out.kind = "ok"
  /\ Len(fn_in.out.create) = 3
  /\ \A i \in DOMAIN fn_in.out.create : AlertValid(fn_in.out.create[i])
  /\ fn_in.out.fail = {}
  /\ Cardinality(NewAlerts) = 2
  /\ Len(fn_out.events) = 1

\* C29: every entry extract_alerts returns has a repeat_rule that is None,
\* DAILY or WEEKLY, whatever the model put in the field.
C29_RepeatRuleConstrained ==
  ToolsStepDone =>
    \A i \in DOMAIN fn_out.extracted :
      fn_out.extracted[i].repeat_rule \in {None, "DAILY", "WEEKLY"}

\* The step ran the alerts tool and its extraction failed.
ExtractionFailed ==
  fn_in.out.kind \in {"prompt_raise", "call_raise", "no_json", "not_list"}

\* The entries that reach create_alert in the step: the valid ones among the
\* first two of the model's list, by their position among them.
Reaching == ExtractAlerts(fn_in.out)

\* C30: no failure of the alerts plugin leaves it: when the prompt cannot be
\* built, the model call fails, the answer is unparseable, or a create_alert
\* call raises, the step's list holds no error event; a failed extraction gives
\* no event and no row, and a create_alert call that raises leaves the row of
\* the other call of the run in place.
C30_FailuresSwallowed ==
  (ToolsStepDone /\ fn_out.runs = 1) =>
    /\ \A k \in DOMAIN fn_out.events : fn_out.events[k].event # "error"
    /\ ExtractionFailed => fn_out.events = <<>> /\ alerts = fn_in.alerts
    /\ ~ExtractionFailed =>
         Cardinality(NewAlerts) = Cardinality((1..Len(Reaching)) \ fn_in.out.fail)

\* run_judge was called on its own and returned a record.
JudgeReturned == fn_in.fn = "run_judge" /\ fn_out # NoCall /\ ~fn_out.raised

\* C31: every record run_judge returns, on the success, downgrade, disabled
\* gate and failure fallback paths, has a reason of at most 200 characters and
\* at most 10 risk tags of at most 40 characters each.
C31_FieldsBounded ==
  JudgeReturned =>
    /\ Len(fn_out.reason) <= REASON_MAX
    /\ Len(fn_out.risk_tags) <= TAGS_MAX
    /\ \A i \in DOMAIN fn_out.risk_tags : Len(fn_out.risk_tags[i]) <= TAG_MAX

\* C32: after registering tools with pairwise distinct ids, list_tools returns
\* every one of them once, in registration order, and get(id) returns the tool
\* registered under that id, whatever the display names are.
C32_RegistryById ==
  fn_in.fn = "register" =>
    /\ ListTools(fn_out.tools) = fn_in.registered
    /\ \A i \in DOMAIN fn_in.registered :
         RegistryGet(fn_out.tools, fn_in.registered[i].id) = fn_in.registered[i]

\* C33: the persona's memory policy gates memory writes: in a turn whose
\* persona has memory_policy.enabled false no step adds or changes a MemoryItem,
\* whatever candidates the model returns, and no step of the turn changes the
\* persona.
C33_PolicyGatesWrites ==
  [][/\ persona' = persona
     /\ ~persona.memory_policy.enabled => memory_items' = memory_items]_vars

\* The text of a stored summary is not empty: the fallback and the emergency
\* text start with "Session with N messages.", the model's text is kept as it is.
SummaryNonEmpty(s) == s.kind \in {"fallback", "emergency"} \/ s.text # <<>>

\* A string with a character at each end that is no whitespace.
TrimmedNonEmpty(t) == t # <<>> /\ t[1] \notin Whitespace /\ t[Len(t)] \notin Whitespace

\* The open loops the model gave in the run.
ModelLoops == IF pipe_in.out.kind = "ok" THEN pipe_in.out.data.open_loops ELSE <<>>

\* The positions among the first ten of a list whose entry has a character
\* that is no whitespace.
KeptPositions(xs) ==
  {i \in 1..Len(xs) : i <= 10 /\ \E j \in DOMAIN xs[i] : xs[i][j] \notin Whitespace}

\* The elements of a set of numbers, ascending.
RECURSIVE Ascending(_)
Ascending(S) == IF S = {} THEN <<>> ELSE <<MinOf(S)>> \o Ascending(S \ {MinOf(S)})

\* C36: after any sequence of pipeline runs the stored SessionSummary of the
\* session has a non-empty summary text and at most 10 open loops, each a
\* trimmed non-empty string; a run that wrote the summary on the normal or the
\* fallback path stored the model's entries in the model's order, and one that
\* wrote the emergency summary stored no open loop.
C36_StoredSummaryShape ==
  /\ \A r \in session_summaries :
       /\ SummaryNonEmpty(r.summary)
       /\ Len(r.open_loops) <= 10
       /\ \A i \in DOMAIN r.open_loops : TrimmedNonEmpty(r.open_loops[i])
  /\ (JustRan /\ pipeline_debug.summary_updated) =>
       \A r \in SummaryRows(S1) :
         IF r.summary.kind = "emergency" THEN r.open_loops = <<>>
         ELSE LET at == Ascending(KeptPositions(ModelLoops))
              IN  /\ Len(r.open_loops) = Len(at)
                  /\ \A k \in DOMAIN at : r.open_loops[k] = Strip(ModelLoops[at[k]])

\* An on-cadence run in which the model gave more than 10 open loops, all with
\* text: the first 10 are stored.
C36_Witness ==
  /\ JustRan
  /\ pipeline_debug.summary_updated
  /\ Len(ModelLoops) > 10
  /\ \E r \in SummaryRows(S1) :
       /\ Len(r.open_loops) = 10
       /\ r.open_loops[10] = Strip(ModelLoops[10])
       /\ r.open_loops[2] # ModelLoops[2]

\* The run of p lost the race: its INSERT met the row of the other run.
LostRace(p) == InSeq("pipeline_error", fn_out[p].debug.errors)

CorrectiveTexts == {Corrective(fb) : fb \in JudgeFeedbackValues \ {Absent}}

\* What the retry loop has put after the stored history in the context.
CorrectiveContext ==
  SubSeq(current_history, Len(turn_pre.messages) + 1, Len(current_history))

\* C38: the corrective context is bounded and never persisted: in a turn the
\* generation context is the stored history followed by at most 2 corrective
\* rounds (4 entries: rejected draft, instruction); a completed turn has added
\* two Messages to the session, the user message and then the final reply; no
\* stored Message is a corrective instruction, and the context a turn starts
\* with holds stored messages only.
C38_CorrectiveContextBounded ==
  /\ turns > 0 =>
       /\ Len(current_history) >= Len(turn_pre.messages)
       /\ SubSeq(current_history, 1, Len(turn_pre.messages)) = turn_pre.messages
       /\ Len(CorrectiveContext) <= 4
       /\ Len(CorrectiveContext) = 2 * attempt
       /\ \A i \in DOMAIN CorrectiveContext :
            CorrectiveContext[i].role = IF i % 2 = 1 THEN "assistant" ELSE "system"
  /\ (pc = "done" /\ result.status = "ok") =>
       messages = turn_pre.messages
                    \o <<[role |-> "user", content |-> UserMessage],
                         [role |-> "assistant", content |-> final_text]>>
  /\ \A i \in DOMAIN messages :
       /\ messages[i].role \in {"user", "assistant"}
       /\ messages[i].content \notin CorrectiveTexts
  /\ (pc = "generate" /\ attempt = 0) => current_history = turn_pre.messages

\* The second turn of a session was completed after two corrective rounds.
C38_Witness ==
  /\ turns = 2
  /\ pc = "done"
  /\ result.status = "ok"
  /\ Len(CorrectiveContext) = 4
  /\ Len(messages) = Len(turn_pre.messages) + 2
  /\ Len(turn_pre.messages) >= 2

\* The position where the brace opened at `from` is closed, counting nested
\* braces, or 0 where it is never closed.
RECURSIVE CloseOf(_, _, _)
CloseOf(s, i, depth) ==
  IF i > Len(s) THEN 0
  ELSE IF s[i] = "{" THEN CloseOf(s, i + 1, depth + 1)
  ELSE IF s[i] = "}" THEN IF depth = 1 THEN i ELSE CloseOf(s, i + 1, depth - 1)
  ELSE CloseOf(s, i + 1, depth)

\* The first balanced {...} span of a text, or NoObject.
FirstBalancedSpan(s) ==
  LET start == FindTok(s, "{")
      end == IF start = 0 THEN 0 ELSE CloseOf(s, start + 1, 1)
  IN  IF end = 0 THEN NoObject ELSE SubSeq(s, start, end)

\* The object of the first balanced span of the response text of the call.
FirstObject == JsonLoads(FirstBalancedSpan(Strip(fn_in.text)))

Recovered == fn_in.fn = "recover" /\ calls = 1

\* C34: whenever the first balanced {...} span of the judge model's
\* response is a valid judgment object, run_judge returns that object's
\* verdict, whatever follows the span.
C34_FirstBalancedSpan ==
  (Recovered /\ FirstBalancedSpan(Strip(fn_in.text)) # NoObject /\ FirstObject # NoObject) =>
    fn_out.res.verdict = IF VerdictMember(FirstObject) = "BLOCK" THEN "BLOCK" ELSE "PASS"

\* C35: the judge, the memory extraction and the alert extraction recover
\* the same object from a response text, or all recover nothing.
C35_SameRecovery ==
  Recovered => /\ fn_out.judge = fn_out.mx
               /\ fn_out.mx = fn_out.alerts

\* The upsert_memory_item calls of the run that returned.
CompletedUpserts ==
  IF \/ pipe_in.out.fail_at \in {"get_messages", "count_messages", "get_session_summary"}
     \/ pipe_in.out.kind # "ok"
  THEN 0
  ELSE IF UpsertRaised THEN pipe_in.out.fail_item - 1
  ELSE Len(RunItems)

\* C39: the record a pipeline run returns says what the run did:
\* memory_items_upserted is the number of upsert_memory_item calls that
\* completed, also when a later upsert or the summary step raised, and
\* summary_updated is true exactly when the run wrote SessionSummary.
C39_DebugDescribesRun ==
  JustRan =>
    /\ pipeline_debug.memory_items_upserted = CompletedUpserts
    /\ pipeline_debug.summary_updated <=> pipe_in.summary_writes = 1

====
